---- MODULE Spec2Model ----
(***************************************************************************)
(* Verification model of the GDScript codec generator of                   *)
(* godot-plugin-baproto: the wire-encoding resolver (codec/wire.rs) and    *)
(* the encode / decode statement generators (codec/encode.rs,              *)
(* codec/decode.rs) over the target AST (ast/expr.rs, ast/item.rs).        *)
(***************************************************************************)
EXTENDS Integers, Sequences, FiniteSets, TLC

VARIABLES pc, field_name, encoding, write_method, read_method, encode_stmts, decode_stmts

\* The enum codec: the variant list, the generated statements and the state of
\* one execution of them (the union's discriminant and payload slot, the error
\* of the writer / reader, the wire operations performed so far).
VARIABLES enum_pc, variants, direction, enum_decl, enum_stmts, todo, discriminant,
          value_assigned, stream_error, wire_trace, returned

field_vars == <<pc, field_name, encoding, write_method, read_method, encode_stmts, decode_stmts>>

enum_vars == <<enum_pc, variants, direction, enum_decl, enum_stmts, todo, discriminant,
               value_assigned, stream_error, wire_trace, returned>>

\* The recursion of the statement generator on one encoding: the calls of
\* gen_encode_stmts / gen_decode_stmts still to be made and the number made.
VARIABLES gen_pc, gen_direction, call_stack, calls

\* One emit of an AST node: the node, the indent level on entry, the write
\* that fails (0: none), the level on return, what reached the code writer and
\* the sink, and the result.
VARIABLES emit_pc, node, entry_level, fail_at, cw_level, emit_log, emit_result

call_vars == <<gen_pc, gen_direction, call_stack, calls>>

emit_vars == <<emit_pc, node, entry_level, fail_at, cw_level, emit_log, emit_result>>

\* The string-based statement generator of codec.rs on one field.
VARIABLES codec_pc, codec_encode_stmts, codec_decode_stmts

\* GDScript::generate on one schema: the files added to the output so far, the
\* package paths collected, the work left and the value returned.
VARIABLES pkg_pc, schema, sink_fails, output, all_package_paths, pending, generated

codec_vars == <<codec_pc, codec_encode_stmts, codec_decode_stmts>>

pkg_vars == <<pkg_pc, schema, sink_fails, output, all_package_paths, pending, generated>>

vars == <<field_vars, enum_vars, call_vars, emit_vars, codec_vars, pkg_vars>>

(***************************************************************************)
(* Bounds of the model.                                                    *)
(***************************************************************************)
\* Deepest array / map nesting of the encodings handed to the generators.
MaxDepth == 2

(***************************************************************************)
(* Encoding descriptors (baproto::Encoding, NativeType, WireFormat,        *)
(* Transform), as the generator reads them.                                *)
(***************************************************************************)
Bits(count) == [format |-> "Bits", count |-> count]

LengthPrefixed(prefix_bits) == [format |-> "LengthPrefixed", prefix_bits |-> prefix_bits]

Encoding(wire, native, transforms) == [wire |-> wire, native |-> native, transforms |-> transforms]

NativeBool == [type |-> "Bool"]

NativeInt(bits, signed) == [type |-> "Int", bits |-> bits, signed |-> signed]

NativeFloat(bits) == [type |-> "Float", bits |-> bits]

NativeString == [type |-> "String"]

NativeBytes == [type |-> "Bytes"]

NativeArray(element) == [type |-> "Array", element |-> element]

NativeMap(key, value) == [type |-> "Map", key |-> key, value |-> value]

NativeMessage(path) == [type |-> "Message", descriptor |-> [path |-> path]]

NativeEnum(path) == [type |-> "Enum", descriptor |-> [path |-> path]]

(***************************************************************************)
(* Target AST: expressions (ast/expr.rs) and items (ast/item.rs).          *)
(***************************************************************************)
Expr_ident(name) == [kind |-> "Identifier", name |-> name]

Expr_null == [kind |-> "Identifier", name |-> "null"]

Expr_literal_int(n) == [kind |-> "Literal", lit |-> "Int", int |-> n]

Expr_empty_array == [kind |-> "Literal", lit |-> "Array", items |-> <<>>]

Expr_empty_dict == [kind |-> "Literal", lit |-> "Dict", items |-> <<>>]

Expr_index(receiver, index) == [kind |-> "IndexAccess", receiver |-> receiver, index |-> index]

Expr_binary_op(left, op, right) == [kind |-> "BinaryOp", left |-> left, op |-> op, right |-> right]

\* FnCall.receiver is an Option: None is the standalone-function case.
NoReceiver == [kind |-> "None"]

FnCall_function_args(name, args) == [kind |-> "FnCall", receiver |-> NoReceiver, name |-> name, args |-> args]

FnCall_method(receiver, name) == [kind |-> "FnCall", receiver |-> receiver, name |-> name, args |-> <<>>]

FnCall_method_args(receiver, name, args) == [kind |-> "FnCall", receiver |-> receiver, name |-> name, args |-> args]

\* Assignment::reassign: no declaration keyword, no type hint.
Assignment_reassign(variable, value) ==
    [declaration |-> "None", variable |-> variable, type_hint |-> "None", value |-> value]

\* Assignment::var: `var name := value`.
Assignment_var(name, value) ==
    [declaration |-> "Var", variable |-> Expr_ident(name), type_hint |-> "Infer", value |-> value]

Item_Assignment(a) == [item |-> "Assignment", assignment |-> a]

Item_Expr(e) == [item |-> "Expr", expr |-> e]

Item_ForIn(variable, iterable, body) ==
    [item |-> "ForIn", variable |-> variable, iterable |-> iterable, body |-> body]

\* If built with condition and then_body only: else_body stays None.
Item_If(condition, then_body) ==
    [item |-> "If", condition |-> condition, then_body |-> then_body, has_else |-> FALSE]

Item_Return(e) == [item |-> "Return", value |-> e]

(***************************************************************************)
(* Results: Ok(CodecMethod) / Ok(Vec<Item>) / Err(anyhow).                 *)
(***************************************************************************)
CodecMethod(method, extra_args) == [ok |-> TRUE, method |-> method, extra_args |-> extra_args]

\* anyhow::bail!("Unsupported encoding combination: native={:?}, wire={:?}", ..)
Unsupported(enc) ==
    [ok |-> FALSE, error |-> "Unsupported encoding combination",
     native |-> enc.native, wire |-> enc.wire]

OkStmts(stmts) == [ok |-> TRUE, stmts |-> stmts]

ExpectedMessageOrEnum == [ok |-> FALSE, error |-> "Expected message or enum type"]

NotRun == [ok |-> FALSE, error |-> "not run"]

(***************************************************************************)
(* codec/wire.rs: the wire-encoding resolver.                              *)
(***************************************************************************)
\* encoding.transforms.iter().any(|t| matches!(t, Transform::ZigZag))
has_zigzag(enc) == \E i \in 1..Len(enc.transforms) : enc.transforms[i] = "ZigZag"

\* One fixed-width integer arm of the match: (Int {bits, signed}, Bits {count}).
IsFixedInt(native, wire, bits, signed) ==
    /\ native.type = "Int"
    /\ native.bits = bits
    /\ native.signed = signed
    /\ wire.format = "Bits"
    /\ wire.count = bits

\* One float arm of the match: (Float {bits}, Bits {count}).
IsFixedFloat(native, wire, bits) ==
    /\ native.type = "Float"
    /\ native.bits = bits
    /\ wire.format = "Bits"
    /\ wire.count = bits

\* The match of get_write_method, arm by arm, first match wins.
write_match(enc, zigzag) ==
    LET native == enc.native
        wire == enc.wire
    IN  IF native.type = "Bool" THEN CodecMethod("write_bool", <<>>)
        ELSE IF native.type = "Int" /\ wire.format = "Bits" /\ zigzag
            THEN CodecMethod("write_zigzag", <<Expr_literal_int(wire.count)>>)
        ELSE IF IsFixedInt(native, wire, 8, TRUE) THEN CodecMethod("write_i8", <<>>)
        ELSE IF IsFixedInt(native, wire, 8, FALSE) THEN CodecMethod("write_u8", <<>>)
        ELSE IF IsFixedInt(native, wire, 16, TRUE) THEN CodecMethod("write_i16", <<>>)
        ELSE IF IsFixedInt(native, wire, 16, FALSE) THEN CodecMethod("write_u16", <<>>)
        ELSE IF IsFixedInt(native, wire, 32, TRUE) THEN CodecMethod("write_i32", <<>>)
        ELSE IF IsFixedInt(native, wire, 32, FALSE) THEN CodecMethod("write_u32", <<>>)
        ELSE IF IsFixedInt(native, wire, 64, TRUE) THEN CodecMethod("write_i64", <<>>)
        ELSE IF IsFixedInt(native, wire, 64, FALSE) THEN CodecMethod("write_u64", <<>>)
        ELSE IF native.type = "Int" /\ native.signed /\ wire.format = "LengthPrefixed"
            THEN CodecMethod("write_varint_signed", <<>>)
        ELSE IF native.type = "Int" /\ ~native.signed /\ wire.format = "LengthPrefixed"
            THEN CodecMethod("write_varint_unsigned", <<>>)
        ELSE IF IsFixedFloat(native, wire, 32) THEN CodecMethod("write_f32", <<>>)
        ELSE IF IsFixedFloat(native, wire, 64) THEN CodecMethod("write_f64", <<>>)
        ELSE IF native.type = "String" /\ wire.format = "LengthPrefixed"
            THEN CodecMethod("write_string", <<>>)
        ELSE Unsupported(enc)

\* Variant: the fixed-width arms are tried before the zig-zag arm.
get_write_method_fixed_first(enc) ==
    LET plain == write_match(enc, FALSE)
    IN  IF plain.ok THEN plain ELSE write_match(enc, has_zigzag(enc))

\* Variant: `all` instead of `any` over the transforms (true of the empty list).
get_write_method_all(enc) ==
    write_match(enc, \A i \in 1..Len(enc.transforms) : enc.transforms[i] = "ZigZag")

\* Variant: a string resolves under every wire format.
get_write_method_string_any(enc) ==
    IF enc.native.type = "String" THEN CodecMethod("write_string", <<>>)
    ELSE write_match(enc, has_zigzag(enc))

get_write_method(enc) == write_match(enc, has_zigzag(enc))

\* The match of get_read_method, arm by arm, first match wins.
read_match(enc, zigzag) ==
    LET native == enc.native
        wire == enc.wire
    IN  IF native.type = "Bool" THEN CodecMethod("read_bool", <<>>)
        ELSE IF native.type = "Int" /\ wire.format = "Bits" /\ zigzag
            THEN CodecMethod("read_zigzag", <<Expr_literal_int(wire.count)>>)
        ELSE IF IsFixedInt(native, wire, 8, TRUE) THEN CodecMethod("read_i8", <<>>)
        ELSE IF IsFixedInt(native, wire, 8, FALSE) THEN CodecMethod("read_u8", <<>>)
        ELSE IF IsFixedInt(native, wire, 16, TRUE) THEN CodecMethod("read_i16", <<>>)
        ELSE IF IsFixedInt(native, wire, 16, FALSE) THEN CodecMethod("read_u16", <<>>)
        ELSE IF IsFixedInt(native, wire, 32, TRUE) THEN CodecMethod("read_i32", <<>>)
        ELSE IF IsFixedInt(native, wire, 32, FALSE) THEN CodecMethod("read_u32", <<>>)
        ELSE IF IsFixedInt(native, wire, 64, TRUE) THEN CodecMethod("read_i64", <<>>)
        ELSE IF IsFixedInt(native, wire, 64, FALSE) THEN CodecMethod("read_u64", <<>>)
        ELSE IF native.type = "Int" /\ native.signed /\ wire.format = "LengthPrefixed"
            THEN CodecMethod("read_varint_signed", <<>>)
        ELSE IF native.type = "Int" /\ ~native.signed /\ wire.format = "LengthPrefixed"
            THEN CodecMethod("read_varint_unsigned", <<>>)
        ELSE IF IsFixedFloat(native, wire, 32) THEN CodecMethod("read_f32", <<>>)
        ELSE IF IsFixedFloat(native, wire, 64) THEN CodecMethod("read_f64", <<>>)
        ELSE IF native.type = "String" /\ wire.format = "LengthPrefixed"
            THEN CodecMethod("read_string", <<>>)
        ELSE Unsupported(enc)

\* Variant: the zig-zag transform is not looked at when reading.
get_read_method_no_zigzag(enc) == read_match(enc, FALSE)

\* Variant: the boolean arm also requires a fixed-width wire format.
get_read_method_bool_bits(enc) ==
    IF enc.native.type = "Bool" /\ enc.wire.format # "Bits" THEN Unsupported(enc)
    ELSE read_match(enc, has_zigzag(enc))

get_read_method(enc) == read_match(enc, has_zigzag(enc))

(***************************************************************************)
(* codec/encode.rs: the encode statement generator.                        *)
(***************************************************************************)
\* if field == null: _writer.set_error(ERR_INVALID_DATA); return null
gen_null_check(name) ==
    Item_If(Expr_binary_op(Expr_ident(name), "Eq", Expr_null),
            << Item_Expr(FnCall_method_args(Expr_ident("_writer"), "set_error",
                                            <<Expr_ident("ERR_INVALID_DATA")>>)),
               Item_Return(Expr_null) >>)

\* _writer.write_varint_unsigned(field.size())
write_length(name) ==
    Item_Expr(FnCall_method_args(Expr_ident("_writer"), "write_varint_unsigned",
                                 <<FnCall_method(Expr_ident(name), "size")>>))

\* field._encode(_writer)
encode_call(name) ==
    Item_Expr(FnCall_method_args(Expr_ident(name), "_encode", <<Expr_ident("_writer")>>))

gen_encode_primitive(name, enc) ==
    LET method == get_write_method(enc)
    IN  IF ~method.ok THEN method
        ELSE OkStmts(<< Item_Expr(FnCall_method_args(Expr_ident("_writer"), method.method,
                                                     <<Expr_ident(name)>> \o method.extra_args)) >>)

gen_encode_bytes(name) ==
    OkStmts(<< write_length(name),
               Item_Expr(FnCall_method_args(Expr_ident("_writer"), "write_bytes",
                                            <<Expr_ident(name)>>)) >>)

\* Variant: the elements are delegated to without the null guard.
gen_encode_array_message_unguarded(name, element) ==
    OkStmts(<< write_length(name),
               Item_ForIn("_item", Expr_ident(name), << encode_call("_item") >>) >>)

gen_encode_array_message(name, element) ==
    OkStmts(<< write_length(name),
               Item_ForIn("_item", Expr_ident(name),
                          << gen_null_check("_item"), encode_call("_item") >>) >>)

gen_encode_message(name) == OkStmts(<< gen_null_check(name), encode_call(name) >>)

gen_encode_enum(name) == OkStmts(<< gen_null_check(name), encode_call(name) >>)

RECURSIVE gen_encode_stmts(_, _)
RECURSIVE gen_encode_array(_, _)
RECURSIVE gen_encode_array_primitive(_, _)
RECURSIVE gen_encode_map(_, _, _)
RECURSIVE gen_encode_map_primitive(_, _, _)
RECURSIVE gen_encode_map_message(_, _, _)

gen_encode_array_primitive(name, element) ==
    LET element_stmts == gen_encode_stmts("_item", element)
    IN  IF ~element_stmts.ok THEN element_stmts
        ELSE OkStmts(<< write_length(name),
                        Item_ForIn("_item", Expr_ident(name), element_stmts.stmts) >>)

gen_encode_array(name, element) ==
    IF element.native.type \in {"Message", "Enum"}
    THEN gen_encode_array_message(name, element)
    ELSE gen_encode_array_primitive(name, element)

\* Variant: the value is written before the key.
gen_encode_map_primitive_value_first(name, key, value) ==
    LET key_stmts == gen_encode_stmts("_key", key)
        value_method == get_write_method(value)
        value_access == Expr_index(Expr_ident(name), Expr_ident("_key"))
    IN  IF ~key_stmts.ok THEN key_stmts
        ELSE IF ~value_method.ok THEN value_method
        ELSE OkStmts(<< write_length(name),
                        Item_ForIn("_key", Expr_ident(name),
                                   << Item_Expr(FnCall_method_args(
                                          Expr_ident("_writer"), value_method.method,
                                          <<value_access>> \o value_method.extra_args)) >>
                                   \o key_stmts.stmts) >>)

gen_encode_map_primitive(name, key, value) ==
    LET key_stmts == gen_encode_stmts("_key", key)
        value_method == get_write_method(value)
        value_access == Expr_index(Expr_ident(name), Expr_ident("_key"))
    IN  IF ~key_stmts.ok THEN key_stmts
        ELSE IF ~value_method.ok THEN value_method
        ELSE OkStmts(<< write_length(name),
                        Item_ForIn("_key", Expr_ident(name),
                                   Append(key_stmts.stmts,
                                          Item_Expr(FnCall_method_args(
                                              Expr_ident("_writer"), value_method.method,
                                              <<value_access>> \o value_method.extra_args)))) >>)

gen_encode_map_message(name, key, value) ==
    LET key_stmts == gen_encode_stmts("_key", key)
        value_access == Expr_index(Expr_ident(name), Expr_ident("_key"))
    IN  IF ~key_stmts.ok THEN key_stmts
        ELSE OkStmts(<< write_length(name),
                        Item_ForIn("_key", Expr_ident(name),
                                   key_stmts.stmts \o
                                   << Item_Assignment(Assignment_var("_value", value_access)),
                                      gen_null_check("_value"),
                                      encode_call("_value") >>) >>)

gen_encode_map(name, key, value) ==
    IF value.native.type \in {"Message", "Enum"}
    THEN gen_encode_map_message(name, key, value)
    ELSE gen_encode_map_primitive(name, key, value)

gen_encode_stmts(name, enc) ==
    LET native == enc.native
    IN  IF native.type \in {"Bool", "Int", "Float", "String"} THEN gen_encode_primitive(name, enc)
        ELSE IF native.type = "Bytes" THEN gen_encode_bytes(name)
        ELSE IF native.type = "Array" THEN gen_encode_array(name, native.element)
        ELSE IF native.type = "Map" THEN gen_encode_map(name, native.key, native.value)
        ELSE IF native.type = "Message" THEN gen_encode_message(name)
        ELSE gen_encode_enum(name)

(***************************************************************************)
(* codec/decode.rs: the decode statement generator.                        *)
(***************************************************************************)
\* if _reader.get_error() != OK: return _reader.get_error()
gen_reader_error_check ==
    Item_If(Expr_binary_op(FnCall_method(Expr_ident("_reader"), "get_error"),
                           "NotEq", Expr_ident("OK")),
            << Item_Return(FnCall_method(Expr_ident("_reader"), "get_error")) >>)

\* range(_reader.read_varint_unsigned())
range_call ==
    FnCall_function_args("range", <<FnCall_method(Expr_ident("_reader"), "read_varint_unsigned")>>)

\* field._decode(_reader)
decode_call(name) ==
    Item_Expr(FnCall_method_args(Expr_ident(name), "_decode", <<Expr_ident("_reader")>>))

\* descriptor.path.join("_")
RECURSIVE join(_, _)
join(path, sep) ==
    IF Len(path) = 0 THEN ""
    ELSE IF Len(path) = 1 THEN path[1]
    ELSE path[1] \o sep \o join(Tail(path), sep)

\* Variant: the read is assigned but its error check is left out.
gen_decode_primitive_unchecked(name, enc) ==
    LET method == get_read_method(enc)
    IN  IF ~method.ok THEN method
        ELSE OkStmts(<< Item_Assignment(Assignment_reassign(
                            Expr_ident(name),
                            FnCall_method_args(Expr_ident("_reader"), method.method,
                                               method.extra_args))) >>)

gen_decode_primitive(name, enc) ==
    LET method == get_read_method(enc)
    IN  IF ~method.ok THEN method
        ELSE OkStmts(<< Item_Assignment(Assignment_reassign(
                            Expr_ident(name),
                            FnCall_method_args(Expr_ident("_reader"), method.method,
                                               method.extra_args))),
                        gen_reader_error_check >>)

\* Variant: the length prefix is read as a fixed 32-bit integer.
gen_decode_bytes_u32_length(name) ==
    OkStmts(<< Item_Assignment(Assignment_reassign(
                   Expr_ident(name),
                   FnCall_method_args(Expr_ident("_reader"), "read_bytes",
                       <<FnCall_method(Expr_ident("_reader"), "read_u32")>>))),
               gen_reader_error_check >>)

gen_decode_bytes(name) ==
    OkStmts(<< Item_Assignment(Assignment_reassign(
                   Expr_ident(name),
                   FnCall_method_args(Expr_ident("_reader"), "read_bytes",
                       <<FnCall_method(Expr_ident("_reader"), "read_varint_unsigned")>>))),
               gen_reader_error_check >>)

\* Variant: the element is appended before its error check.
gen_decode_array_message_append_first(name, element) ==
    IF element.native.type \notin {"Message", "Enum"} THEN ExpectedMessageOrEnum
    ELSE LET type_name == join(element.native.descriptor.path, "_")
         IN  OkStmts(<< Item_Assignment(Assignment_reassign(Expr_ident(name), Expr_empty_array)),
                        Item_ForIn("_i", range_call,
                            << Item_Assignment(Assignment_var("_item",
                                   FnCall_method(Expr_ident(type_name), "new"))),
                               decode_call("_item"),
                               Item_Expr(FnCall_method_args(Expr_ident(name), "append",
                                                            <<Expr_ident("_item")>>)),
                               gen_reader_error_check >>) >>)

gen_decode_array_message(name, element) ==
    IF element.native.type \notin {"Message", "Enum"} THEN ExpectedMessageOrEnum
    ELSE LET type_name == join(element.native.descriptor.path, "_")
         IN  OkStmts(<< Item_Assignment(Assignment_reassign(Expr_ident(name), Expr_empty_array)),
                        Item_ForIn("_i", range_call,
                            << Item_Assignment(Assignment_var("_item",
                                   FnCall_method(Expr_ident(type_name), "new"))),
                               decode_call("_item"),
                               gen_reader_error_check,
                               Item_Expr(FnCall_method_args(Expr_ident(name), "append",
                                                            <<Expr_ident("_item")>>)) >>) >>)

gen_decode_message(name, descriptor) ==
    LET type_name == join(descriptor.path, "_")
    IN  OkStmts(<< Item_Assignment(Assignment_reassign(
                       Expr_ident(name), FnCall_method(Expr_ident(type_name), "new"))),
                   decode_call(name),
                   gen_reader_error_check >>)

gen_decode_enum(name, descriptor) ==
    LET type_name == join(descriptor.path, "_")
    IN  OkStmts(<< Item_Assignment(Assignment_reassign(
                       Expr_ident(name), FnCall_method(Expr_ident(type_name), "new"))),
                   decode_call(name),
                   gen_reader_error_check >>)

gen_decode_map_primitive(name, key, value) ==
    LET key_method == get_read_method(key)
        value_method == get_read_method(value)
        map_index == Expr_index(Expr_ident(name), Expr_ident("_key"))
    IN  IF ~key_method.ok THEN key_method
        ELSE IF ~value_method.ok THEN value_method
        ELSE OkStmts(<< Item_Assignment(Assignment_reassign(Expr_ident(name), Expr_empty_dict)),
                        Item_ForIn("_i", range_call,
                            << Item_Assignment(Assignment_var("_key",
                                   FnCall_method_args(Expr_ident("_reader"), key_method.method,
                                                      key_method.extra_args))),
                               gen_reader_error_check,
                               Item_Assignment(Assignment_reassign(map_index,
                                   FnCall_method_args(Expr_ident("_reader"), value_method.method,
                                                      value_method.extra_args))),
                               gen_reader_error_check >>) >>)

gen_decode_map_message(name, key, value) ==
    LET key_method == get_read_method(key)
        map_index == Expr_index(Expr_ident(name), Expr_ident("_key"))
    IN  IF ~key_method.ok THEN key_method
        ELSE IF value.native.type \notin {"Message", "Enum"} THEN ExpectedMessageOrEnum
        ELSE LET type_name == join(value.native.descriptor.path, "_")
             IN  OkStmts(<< Item_Assignment(Assignment_reassign(Expr_ident(name), Expr_empty_dict)),
                            Item_ForIn("_i", range_call,
                                << Item_Assignment(Assignment_var("_key",
                                       FnCall_method_args(Expr_ident("_reader"),
                                                          key_method.method,
                                                          key_method.extra_args))),
                                   gen_reader_error_check,
                                   Item_Assignment(Assignment_var("_value",
                                       FnCall_method(Expr_ident(type_name), "new"))),
                                   decode_call("_value"),
                                   gen_reader_error_check,
                                   Item_Assignment(Assignment_reassign(map_index,
                                       Expr_ident("_value"))) >>) >>)

gen_decode_map(name, key, value) ==
    IF value.native.type \in {"Message", "Enum"}
    THEN gen_decode_map_message(name, key, value)
    ELSE gen_decode_map_primitive(name, key, value)

RECURSIVE gen_decode_stmts(_, _)
RECURSIVE gen_decode_array(_, _)
RECURSIVE gen_decode_array_primitive(_, _)

gen_decode_array_primitive(name, element) ==
    LET element_stmts == gen_decode_stmts("_temp", element)
    IN  IF ~element_stmts.ok THEN element_stmts
        ELSE OkStmts(<< Item_Assignment(Assignment_reassign(Expr_ident(name), Expr_empty_array)),
                        Item_ForIn("_i", range_call,
                            Append(element_stmts.stmts,
                                   Item_Expr(FnCall_method_args(Expr_ident(name), "append",
                                                                <<Expr_ident("_temp")>>)))) >>)

gen_decode_array(name, element) ==
    IF element.native.type \in {"Message", "Enum"}
    THEN gen_decode_array_message(name, element)
    ELSE gen_decode_array_primitive(name, element)

gen_decode_stmts(name, enc) ==
    LET native == enc.native
    IN  IF native.type \in {"Bool", "Int", "Float", "String"} THEN gen_decode_primitive(name, enc)
        ELSE IF native.type = "Bytes" THEN gen_decode_bytes(name)
        ELSE IF native.type = "Array" THEN gen_decode_array(name, native.element)
        ELSE IF native.type = "Map" THEN gen_decode_map(name, native.key, native.value)
        ELSE IF native.type = "Message" THEN gen_decode_message(name, native.descriptor)
        ELSE gen_decode_enum(name, native.descriptor)

(***************************************************************************)
(* Inputs: the encodings and field names handed to the generator.          *)
(***************************************************************************)
IntBits == {8, 16, 24, 32, 64}

FloatBits == {16, 32, 64}

BitCounts == {1, 8, 16, 24, 32, 64}

PrefixBits == {8, 64}

WireFormats == {Bits(c) : c \in BitCounts} \cup {LengthPrefixed(p) : p \in PrefixBits}

TransformSets == {<<>>, <<"ZigZag">>}

LeafNatives ==
    {NativeBool, NativeString, NativeBytes,
     NativeMessage(<<"game", "Player">>), NativeEnum(<<"Status">>)}
    \cup {NativeInt(b, s) : b \in IntBits, s \in BOOLEAN}
    \cup {NativeFloat(b) : b \in FloatBits}

\* Every (native type, wire format, transform set) combination of the bounded domain.
LeafEncodings ==
    {Encoding(w, n, t) : w \in WireFormats, n \in LeafNatives, t \in TransformSets}

\* Representative children of container encodings.
ChildEncodings ==
    { Encoding(Bits(32), NativeInt(32, TRUE), <<>>),
      Encoding(Bits(32), NativeInt(32, TRUE), <<"ZigZag">>),
      Encoding(LengthPrefixed(64), NativeString, <<>>),
      Encoding(Bits(8), NativeString, <<>>),
      Encoding(LengthPrefixed(64), NativeBytes, <<>>),
      Encoding(LengthPrefixed(64), NativeMessage(<<"game", "Player">>), <<>>),
      Encoding(LengthPrefixed(64), NativeEnum(<<"Status">>), <<>>) }

ArrayOf(element) == Encoding(LengthPrefixed(64), NativeArray(element), <<>>)

MapOf(key, value) == Encoding(LengthPrefixed(64), NativeMap(key, value), <<>>)

\* Container encodings nested up to depth d; a map nests on its key or on its value.
RECURSIVE Nested(_)
Nested(d) ==
    IF d = 0 THEN ChildEncodings
    ELSE LET inner == Nested(d - 1)
         IN  ChildEncodings
             \cup {ArrayOf(e) : e \in inner}
             \cup {MapOf(k, v) : k \in inner, v \in ChildEncodings}
             \cup {MapOf(k, v) : k \in ChildEncodings, v \in inner}

Encodings == LeafEncodings \cup Nested(MaxDepth)

FieldNames == {"score", "items"}

(***************************************************************************)
(* The generator as a state machine: a field is picked, its codec methods  *)
(* are resolved, its encode and then its decode statements are generated.  *)
(***************************************************************************)
\* No enum is being generated.
EnumIdle ==
    /\ enum_pc = "idle"
    /\ variants = <<>>
    /\ direction = "encode"
    /\ enum_decl = <<>>
    /\ enum_stmts = NotRun
    /\ todo = <<>>
    /\ discriminant = -1
    /\ value_assigned = FALSE
    /\ stream_error = "OK"
    /\ wire_trace = <<>>
    /\ returned = "none"

\* No recursion is being followed.
CallIdle ==
    /\ gen_pc = "idle"
    /\ gen_direction = "encode"
    /\ call_stack = <<>>
    /\ calls = 0

\* No node is being emitted.
EmitIdle ==
    /\ emit_pc = "idle"
    /\ node = <<>>
    /\ entry_level = 0
    /\ fail_at = 0
    /\ cw_level = 0
    /\ emit_log = <<>>
    /\ emit_result = "none"

\* The string-based generator is not run.
CodecIdle ==
    /\ codec_pc = "idle"
    /\ codec_encode_stmts = NotRun
    /\ codec_decode_stmts = NotRun

\* No schema is being generated.
PkgIdle ==
    /\ pkg_pc = "idle"
    /\ schema = <<>>
    /\ sink_fails = {}
    /\ output = {}
    /\ all_package_paths = {}
    /\ pending = <<>>
    /\ generated = NotRun

\* No field is being generated.
FieldIdle ==
    /\ pc = "off"
    /\ field_name = "score"
    /\ encoding = Encoding(Bits(32), NativeInt(32, TRUE), <<>>)
    /\ write_method = NotRun
    /\ read_method = NotRun
    /\ encode_stmts = NotRun
    /\ decode_stmts = NotRun

Init ==
    /\ pc = "start"
    /\ field_name \in FieldNames
    /\ encoding \in Encodings
    /\ write_method = NotRun
    /\ read_method = NotRun
    /\ encode_stmts = NotRun
    /\ decode_stmts = NotRun
    /\ EnumIdle
    /\ CallIdle
    /\ EmitIdle
    /\ CodecIdle
    /\ PkgIdle

Resolve ==
    /\ pc = "start"
    /\ write_method' = get_write_method(encoding)
    /\ read_method' = get_read_method(encoding)
    /\ pc' = "resolved"
    /\ UNCHANGED <<field_name, encoding, encode_stmts, decode_stmts, enum_vars, call_vars, emit_vars, codec_vars, pkg_vars>>

GenEncode ==
    /\ pc = "resolved"
    /\ encode_stmts' = gen_encode_stmts(field_name, encoding)
    /\ pc' = "encoded"
    /\ UNCHANGED <<field_name, encoding, write_method, read_method, decode_stmts, enum_vars, call_vars, emit_vars, codec_vars, pkg_vars>>

GenDecode ==
    /\ pc = "encoded"
    /\ decode_stmts' = gen_decode_stmts(field_name, encoding)
    /\ pc' = "decoded"
    /\ UNCHANGED <<field_name, encoding, write_method, read_method, encode_stmts, enum_vars, call_vars, emit_vars, codec_vars, pkg_vars>>

Next == Resolve \/ GenEncode \/ GenDecode

Spec == Init /\ [][Next]_vars

(***************************************************************************)
(* Properties of the resolver.                                             *)
(***************************************************************************)
Resolved == pc # "start"

\* The operation families: a family X has the writer write_X and the reader read_X.
OpFamilies ==
    {"bool", "zigzag", "i8", "u8", "i16", "u16", "i32", "u32", "i64", "u64",
     "varint_signed", "varint_unsigned", "f32", "f64", "string", "bytes"}

ContainsZigZag(enc) == \E i \in DOMAIN enc.transforms : enc.transforms[i] = "ZigZag"

IsUnsupportedError(result, enc) ==
    /\ ~result.ok
    /\ result.error = "Unsupported encoding combination"
    /\ result.native = enc.native
    /\ result.wire = enc.wire

\* C1: get_write_method and get_read_method fail together or succeed together;
\* when they succeed the names are write_X and read_X for one X and the
\* extra-argument lists are equal.
C1_ReadWriteSymmetry ==
    Resolved =>
        /\ write_method.ok = read_method.ok
        /\ write_method.ok =>
            /\ \E X \in OpFamilies :
                /\ write_method.method = "write_" \o X
                /\ read_method.method = "read_" \o X
            /\ write_method.extra_args = read_method.extra_args

C1_Witness ==
    /\ Resolved
    /\ write_method.ok
    /\ read_method.ok
    /\ write_method.method = "write_zigzag"
    /\ Len(read_method.extra_args) = 1

\* C2 as stated: every encoding whose transform set contains zig-zag resolves
\* to write_zigzag / read_zigzag with the wire bit count as the one extra argument.
C2_ZigZagForEveryEncoding ==
    (Resolved /\ ContainsZigZag(encoding)) =>
        /\ write_method.ok /\ write_method.method = "write_zigzag"
        /\ read_method.ok /\ read_method.method = "read_zigzag"
        /\ Len(write_method.extra_args) = 1
        /\ Len(read_method.extra_args) = 1
        /\ encoding.wire.format = "Bits" =>
            /\ write_method.extra_args = <<Expr_literal_int(encoding.wire.count)>>
            /\ read_method.extra_args = <<Expr_literal_int(encoding.wire.count)>>

\* C2 amended: an integer under a fixed-width wire format whose transform set
\* contains zig-zag resolves to write_zigzag / read_zigzag, each with exactly one
\* extra argument, the wire bit count, also where a fixed-width operation matches.
C2_ZigZagForFixedWidthInt ==
    (/\ Resolved
     /\ ContainsZigZag(encoding)
     /\ encoding.native.type = "Int"
     /\ encoding.wire.format = "Bits") =>
        /\ write_method = [ok |-> TRUE, method |-> "write_zigzag",
                           extra_args |-> <<Expr_literal_int(encoding.wire.count)>>]
        /\ read_method = [ok |-> TRUE, method |-> "read_zigzag",
                          extra_args |-> <<Expr_literal_int(encoding.wire.count)>>]

C2_Witness ==
    /\ Resolved
    /\ encoding = Encoding(Bits(32), NativeInt(32, TRUE), <<"ZigZag">>)
    /\ write_method.method = "write_zigzag"
    /\ read_method.method = "read_zigzag"

\* C3: an integer under a fixed-width wire format without zig-zag resolves to
\* write_/read_ + (i|u) + N exactly when its width N is 8, 16, 32 or 64 and the
\* wire bit count is N; every other pair is an unsupported-encoding error.
C3_FixedWidthInt ==
    (/\ Resolved
     /\ encoding.native.type = "Int"
     /\ encoding.wire.format = "Bits"
     /\ ~ContainsZigZag(encoding)) =>
        LET N == encoding.native.bits
            X == (IF encoding.native.signed THEN "i" ELSE "u") \o ToString(N)
        IN  IF N \in {8, 16, 32, 64} /\ encoding.wire.count = N
            THEN /\ write_method = [ok |-> TRUE, method |-> "write_" \o X, extra_args |-> <<>>]
                 /\ read_method = [ok |-> TRUE, method |-> "read_" \o X, extra_args |-> <<>>]
            ELSE /\ IsUnsupportedError(write_method, encoding)
                 /\ IsUnsupportedError(read_method, encoding)

C3_Witness ==
    /\ Resolved
    /\ encoding = Encoding(Bits(16), NativeInt(16, FALSE), <<>>)
    /\ write_method.method = "write_u16"
    /\ read_method.method = "read_u16"

\* C4: a Bool resolves to write_bool / read_bool with no extra argument under
\* every wire format and every transform set.
C4_BoolAlwaysBool ==
    (Resolved /\ encoding.native.type = "Bool") =>
        /\ write_method = [ok |-> TRUE, method |-> "write_bool", extra_args |-> <<>>]
        /\ read_method = [ok |-> TRUE, method |-> "read_bool", extra_args |-> <<>>]

C4_Witness ==
    /\ Resolved
    /\ encoding = Encoding(LengthPrefixed(64), NativeBool, <<"ZigZag">>)
    /\ write_method.method = "write_bool"
    /\ read_method.method = "read_bool"

\* The combinations C5 lists as outside the mapping table.
OutsideTable(enc) ==
    \/ enc.native.type \in {"Bytes", "Array", "Map", "Message", "Enum"}
    \/ enc.native.type = "String" /\ enc.wire.format = "Bits"
    \/ /\ enc.native.type = "Float"
       /\ ~(/\ enc.wire.format = "Bits"
            /\ enc.native.bits = enc.wire.count
            /\ enc.native.bits \in {32, 64})

IsCodecMethod(result) ==
    /\ result.ok
    /\ DOMAIN result = {"ok", "method", "extra_args"}
    /\ \E X \in OpFamilies : result.method \in {"write_" \o X, "read_" \o X}
    /\ Len(result.extra_args) \in {0, 1}

\* C5: resolution is total: each direction yields one CodecMethod or the
\* "Unsupported encoding combination" error naming the native type and the wire
\* format, and every combination outside the mapping table yields the error.
C5_ResolutionTotal ==
    Resolved =>
        /\ IsCodecMethod(write_method) \/ IsUnsupportedError(write_method, encoding)
        /\ IsCodecMethod(read_method) \/ IsUnsupportedError(read_method, encoding)
        /\ OutsideTable(encoding) =>
            /\ IsUnsupportedError(write_method, encoding)
            /\ IsUnsupportedError(read_method, encoding)

C5_Witness ==
    /\ Resolved
    /\ encoding = Encoding(Bits(8), NativeString, <<>>)
    /\ IsUnsupportedError(write_method, encoding)
    /\ IsUnsupportedError(read_method, encoding)

(***************************************************************************)
(* Properties of the statement generators.                                 *)
(***************************************************************************)
Encoded == pc \in {"encoded", "decoded"}

Decoded == pc = "decoded"

ReaderIdent == [kind |-> "Identifier", name |-> "_reader"]

WriterIdent == [kind |-> "Identifier", name |-> "_writer"]

\* if _reader.get_error() != OK: return _reader.get_error()
ErrorCheckGuard ==
    [item |-> "If",
     condition |-> [kind |-> "BinaryOp",
                    left |-> [kind |-> "FnCall", receiver |-> ReaderIdent,
                              name |-> "get_error", args |-> <<>>],
                    op |-> "NotEq",
                    right |-> [kind |-> "Identifier", name |-> "OK"]],
     then_body |-> << [item |-> "Return",
                       value |-> [kind |-> "FnCall", receiver |-> ReaderIdent,
                                  name |-> "get_error", args |-> <<>>]] >>,
     has_else |-> FALSE]

\* if X == null: _writer.set_error(ERR_INVALID_DATA); return
NullGuard(X) ==
    [item |-> "If",
     condition |-> [kind |-> "BinaryOp",
                    left |-> [kind |-> "Identifier", name |-> X],
                    op |-> "Eq",
                    right |-> [kind |-> "Identifier", name |-> "null"]],
     then_body |-> << [item |-> "Expr",
                       expr |-> [kind |-> "FnCall", receiver |-> WriterIdent,
                                 name |-> "set_error",
                                 args |-> <<[kind |-> "Identifier",
                                             name |-> "ERR_INVALID_DATA"]>>]],
                      [item |-> "Return", value |-> [kind |-> "Identifier", name |-> "null"]] >>,
     has_else |-> FALSE]

\* Every statement list of a generated list: the list itself and, at every
\* nesting level, the bodies of its loops and conditionals.
RECURSIVE Blocks(_)
Blocks(stmts) ==
    {stmts} \cup
    UNION { IF stmts[i].item = "ForIn" THEN Blocks(stmts[i].body)
            ELSE IF stmts[i].item = "If" THEN Blocks(stmts[i].then_body)
            ELSE {} : i \in DOMAIN stmts }

\* An expression calls a read operation of the reader (get_error is not a read).
RECURSIVE HasReaderRead(_)
HasReaderRead(e) ==
    IF e.kind = "FnCall"
    THEN \/ e.receiver = ReaderIdent /\ e.name # "get_error"
         \/ HasReaderRead(e.receiver)
         \/ \E i \in DOMAIN e.args : HasReaderRead(e.args[i])
    ELSE IF e.kind = "BinaryOp" THEN HasReaderRead(e.left) \/ HasReaderRead(e.right)
    ELSE IF e.kind = "IndexAccess" THEN HasReaderRead(e.receiver) \/ HasReaderRead(e.index)
    ELSE FALSE

\* A statement performs a reader read in its own expressions (not in a nested body).
PerformsRead(stmt) ==
    IF stmt.item = "Assignment" THEN HasReaderRead(stmt.assignment.value)
    ELSE IF stmt.item = "Expr" THEN HasReaderRead(stmt.expr)
    ELSE IF stmt.item = "ForIn" THEN HasReaderRead(stmt.iterable)
    ELSE IF stmt.item = "If" THEN HasReaderRead(stmt.condition)
    ELSE HasReaderRead(stmt.value)

IsPrimitive(enc) == enc.native.type \in {"Bool", "Int", "Float", "String"}

\* C6: for a primitive encoding that get_read_method resolves, gen_decode_stmts
\* returns exactly two statements: field = _reader.<read op>(extra args), then
\* the error-check guard.
C6_PrimitiveDecodeIsReadThenGuard ==
    (Decoded /\ IsPrimitive(encoding) /\ read_method.ok) =>
        /\ decode_stmts.ok
        /\ decode_stmts.stmts =
            << [item |-> "Assignment",
                assignment |-> [declaration |-> "None",
                                variable |-> [kind |-> "Identifier", name |-> field_name],
                                type_hint |-> "None",
                                value |-> [kind |-> "FnCall", receiver |-> ReaderIdent,
                                           name |-> read_method.method,
                                           args |-> read_method.extra_args]]],
               ErrorCheckGuard >>

C6_Witness ==
    /\ Decoded
    /\ encoding = Encoding(Bits(32), NativeInt(32, TRUE), <<"ZigZag">>)
    /\ read_method.ok
    /\ decode_stmts.ok
    /\ Len(decode_stmts.stmts) = 2

\* C7 as stated: in every statement list of gen_decode_stmts, at every nesting
\* level, each statement that performs a reader read (the element-count read of
\* an array or a map included) is immediately followed by the error-check guard.
C7_EveryReadIsGuarded ==
    (Decoded /\ decode_stmts.ok) =>
        \A block \in Blocks(decode_stmts.stmts) :
            \A i \in DOMAIN block :
                PerformsRead(block[i]) =>
                    /\ i < Len(block)
                    /\ block[i + 1] = ErrorCheckGuard

\* The X of a delegation statement X._encode(_writer), "" for any other statement.
EncodeDelegate(stmt) ==
    IF /\ stmt.item = "Expr"
       /\ stmt.expr.kind = "FnCall"
       /\ stmt.expr.name = "_encode"
       /\ stmt.expr.receiver.kind = "Identifier"
    THEN stmt.expr.receiver.name
    ELSE ""

\* C10: in every statement list of gen_encode_stmts each delegation
\* X._encode(_writer) is immediately preceded, in the same block, by the null
\* guard on the same X.
C10_DelegationIsNullGuarded ==
    (Encoded /\ encode_stmts.ok) =>
        \A block \in Blocks(encode_stmts.stmts) :
            \A i \in DOMAIN block :
                (block[i].item = "Expr" /\ block[i].expr.name = "_encode") =>
                    /\ EncodeDelegate(block[i]) # ""
                    /\ i > 1
                    /\ block[i - 1] = NullGuard(EncodeDelegate(block[i]))

\* An array of messages: the loop body delegates to each element.
C10_Witness ==
    /\ Encoded
    /\ encode_stmts.ok
    /\ encoding.native.type = "Array"
    /\ encoding.native.element.native.type = "Message"
    /\ \E block \in Blocks(encode_stmts.stmts) :
           \E i \in DOMAIN block : EncodeDelegate(block[i]) = "_item"

(***************************************************************************)
(* The wire operations a statement list performs, in execution order.  An  *)
(* operation is a writer / reader call (with its extra arguments), a       *)
(* delegation to a nested type's entry point, or a loop over a body.       *)
(***************************************************************************)
WireCall(name, extra) == [op |-> "call", name |-> name, extra |-> extra, body |-> <<>>]

WireDelegate(name) == [op |-> "delegate", name |-> name, extra |-> <<>>, body |-> <<>>]

WireLoop(body) == [op |-> "loop", name |-> "for", extra |-> <<>>, body |-> body]

RECURSIVE ConcatAll(_)
ConcatAll(seqs) == IF seqs = <<>> THEN <<>> ELSE Head(seqs) \o ConcatAll(Tail(seqs))

\* Operations of an expression: arguments are evaluated before the call itself.
RECURSIVE ExprOps(_)
ExprOps(e) ==
    IF e.kind = "FnCall"
    THEN LET argOps == ConcatAll([i \in DOMAIN e.args |-> ExprOps(e.args[i])])
             plain == SelectSeq(e.args, LAMBDA a : ExprOps(a) = <<>>)
         IN  IF e.receiver \in {ReaderIdent, WriterIdent}
             THEN IF e.name \in {"get_error", "set_error"} THEN argOps
                  ELSE IF e.receiver = WriterIdent
                       THEN Append(argOps, WireCall(e.name, Tail(e.args)))
                       ELSE Append(argOps, WireCall(e.name, plain))
             ELSE IF e.name \in {"_encode", "_decode"} THEN Append(argOps, WireDelegate(e.name))
             ELSE argOps
    ELSE IF e.kind = "BinaryOp" THEN ExprOps(e.left) \o ExprOps(e.right)
    ELSE IF e.kind = "IndexAccess" THEN ExprOps(e.receiver) \o ExprOps(e.index)
    ELSE <<>>

\* Operations of a statement list; the guards (If) perform no wire operation.
RECURSIVE WireOps(_)
WireOps(stmts) ==
    IF stmts = <<>> THEN <<>>
    ELSE LET s == Head(stmts)
             ops == IF s.item = "Assignment" THEN ExprOps(s.assignment.value)
                    ELSE IF s.item = "Expr" THEN ExprOps(s.expr)
                    ELSE IF s.item = "ForIn"
                         THEN Append(ExprOps(s.iterable), WireLoop(WireOps(s.body)))
                    ELSE <<>>
         IN  ops \o WireOps(Tail(stmts))

\* rs is the read counterpart of ws: same length, same order, each write_X
\* answered by read_X with the same extra arguments, each _encode by _decode,
\* each loop by a loop whose body is the counterpart.
RECURSIVE Mirrors(_, _)
Mirrors(ws, rs) ==
    /\ Len(ws) = Len(rs)
    /\ \A i \in DOMAIN ws :
        /\ ws[i].op = rs[i].op
        /\ ws[i].op = "call" =>
            /\ \E X \in OpFamilies :
                ws[i].name = "write_" \o X /\ rs[i].name = "read_" \o X
            /\ ws[i].extra = rs[i].extra
        /\ ws[i].op = "delegate" => ws[i].name = "_encode" /\ rs[i].name = "_decode"
        /\ ws[i].op = "loop" => Mirrors(ws[i].body, rs[i].body)

\* Every loop is immediately preceded by the unsigned-varint count operation.
RECURSIVE CountBeforeElements(_, _)
CountBeforeElements(ops, countName) ==
    \A i \in DOMAIN ops :
        ops[i].op = "loop" =>
            /\ i > 1
            /\ ops[i - 1] = WireCall(countName, <<>>)
            /\ CountBeforeElements(ops[i].body, countName)

IsPrefix(p, q) == Len(p) <= Len(q) /\ SubSeq(q, 1, Len(p)) = p

\* The operations of a map's loop body start with the operations of its key.
KeyBeforeValue(ops, keyOps) ==
    /\ Len(ops) = 2
    /\ ops[2].op = "loop"
    /\ keyOps # <<>>
    /\ IsPrefix(keyOps, ops[2].body)
    /\ Len(ops[2].body) > Len(keyOps)

\* C8: when gen_encode_stmts and gen_decode_stmts both succeed, the decode
\* statements perform the read counterparts of the encode statements' wire
\* operations in the same order, each container's unsigned-varint count before
\* its elements and each map key before its value.
C8_DecodeMirrorsEncode ==
    (Decoded /\ encode_stmts.ok /\ decode_stmts.ok) =>
        LET ws == WireOps(encode_stmts.stmts)
            rs == WireOps(decode_stmts.stmts)
        IN  /\ ws # <<>>
            /\ Mirrors(ws, rs)
            /\ CountBeforeElements(ws, "write_varint_unsigned")
            /\ CountBeforeElements(rs, "read_varint_unsigned")
            /\ encoding.native.type = "Map" =>
                /\ KeyBeforeValue(ws, WireOps(gen_encode_stmts("_key", encoding.native.key).stmts))
                /\ KeyBeforeValue(rs, WireOps(gen_decode_stmts("_key", encoding.native.key).stmts))

\* An array of maps: a count and a loop whose body holds a count and a loop.
C8_Witness ==
    /\ Decoded
    /\ encode_stmts.ok
    /\ decode_stmts.ok
    /\ encoding.native.type = "Array"
    /\ encoding.native.element.native.type = "Map"
    /\ Len(WireOps(decode_stmts.stmts)) = 2
    /\ WireOps(decode_stmts.stmts)[2].op = "loop"

\* An encoding built from resolvable primitives, byte-blobs, arrays, maps and
\* message / enum references only.
RECURSIVE Composed(_)
Composed(enc) ==
    IF IsPrimitive(enc) THEN get_write_method(enc).ok /\ get_read_method(enc).ok
    ELSE IF enc.native.type = "Array" THEN Composed(enc.native.element)
    ELSE IF enc.native.type = "Map" THEN Composed(enc.native.key) /\ Composed(enc.native.value)
    ELSE TRUE

\* C9 as stated: gen_encode_stmts and gen_decode_stmts both return a statement
\* list for every encoding built from resolvable primitives, byte-blobs, arrays,
\* maps and message / enum references, maps keyed or valued by a byte-blob, an
\* array or a map included.
C9_ComposedEncodingsGenerate ==
    (Decoded /\ Composed(encoding)) => (encode_stmts.ok /\ decode_stmts.ok)

(***************************************************************************)
(* Delegated decode: construction, delegation, guard, then use.            *)
(***************************************************************************)
\* The X of a delegation statement X._decode(_reader), "" for any other statement.
DecodeDelegate(stmt) ==
    IF /\ stmt.item = "Expr"
       /\ stmt.expr.kind = "FnCall"
       /\ stmt.expr.name = "_decode"
       /\ stmt.expr.receiver.kind = "Identifier"
       /\ stmt.expr.args = <<ReaderIdent>>
    THEN stmt.expr.receiver.name
    ELSE ""

\* The generated class name of a descriptor path of the input domain.
TypeName(path) ==
    IF path = <<"game", "Player">> THEN "game_Player"
    ELSE IF path = <<"Status">> THEN "Status"
    ELSE "?"

\* The class names of the message / enum references inside an encoding.
RECURSIVE RefTypes(_)
RefTypes(enc) ==
    IF enc.native.type \in {"Message", "Enum"} THEN {TypeName(enc.native.descriptor.path)}
    ELSE IF enc.native.type = "Array" THEN RefTypes(enc.native.element)
    ELSE IF enc.native.type = "Map" THEN RefTypes(enc.native.key) \cup RefTypes(enc.native.value)
    ELSE {}

\* X = Type.new()  or  var X := Type.new()
ConstructsFresh(stmt, X, types) ==
    /\ stmt.item = "Assignment"
    /\ stmt.assignment.variable = [kind |-> "Identifier", name |-> X]
    /\ \/ stmt.assignment.declaration = "None" /\ stmt.assignment.type_hint = "None"
       \/ stmt.assignment.declaration = "Var" /\ stmt.assignment.type_hint = "Infer"
    /\ \E t \in types :
           stmt.assignment.value =
               [kind |-> "FnCall", receiver |-> [kind |-> "Identifier", name |-> t],
                name |-> "new", args |-> <<>>]

\* <array>.append(X)  or  <map>[<key>] = X
AppendsOrStores(stmt, X) ==
    \/ /\ stmt.item = "Expr"
       /\ stmt.expr.kind = "FnCall"
       /\ stmt.expr.name = "append"
       /\ stmt.expr.args = << [kind |-> "Identifier", name |-> X] >>
    \/ /\ stmt.item = "Assignment"
       /\ stmt.assignment.value = [kind |-> "Identifier", name |-> X]

\* C19: in every statement list of gen_decode_stmts each delegation
\* X._decode(_reader) is immediately preceded by the construction of a fresh
\* instance bound to X, immediately followed by the error-check guard, and X is
\* appended to its array or stored in its map only after that guard.
C19_DelegatedDecodeIsConstructedAndGuarded ==
    (Decoded /\ decode_stmts.ok) =>
        \A block \in Blocks(decode_stmts.stmts) :
            \A i \in DOMAIN block :
                (block[i].item = "Expr" /\ block[i].expr.name = "_decode") =>
                    /\ DecodeDelegate(block[i]) # ""
                    /\ i > 1
                    /\ ConstructsFresh(block[i - 1], DecodeDelegate(block[i]),
                                       RefTypes(encoding))
                    /\ i < Len(block)
                    /\ block[i + 1] = ErrorCheckGuard
                    /\ \A j \in DOMAIN block :
                           AppendsOrStores(block[j], DecodeDelegate(block[i])) => j > i + 1

\* A map with message values: the loop body constructs _value, delegates to it,
\* guards, and only then stores it under the key.
C19_Witness ==
    /\ Decoded
    /\ decode_stmts.ok
    /\ encoding.native.type = "Map"
    /\ encoding.native.value.native.type = "Message"
    /\ \E block \in Blocks(decode_stmts.stmts) :
           \E i \in DOMAIN block :
               /\ DecodeDelegate(block[i]) = "_value"
               /\ i + 2 \in DOMAIN block
               /\ AppendsOrStores(block[i + 2], "_value")

(***************************************************************************)
(* Map encode: count, one loop over the keys, key before value.            *)
(***************************************************************************)
\* An expression contains the expression target.
RECURSIVE ExprMentions(_, _)
ExprMentions(e, target) ==
    \/ e = target
    \/ e.kind = "FnCall" /\ \/ ExprMentions(e.receiver, target)
                            \/ \E i \in DOMAIN e.args : ExprMentions(e.args[i], target)
    \/ e.kind = "IndexAccess" /\ \/ ExprMentions(e.receiver, target)
                                 \/ ExprMentions(e.index, target)
    \/ e.kind = "BinaryOp" /\ \/ ExprMentions(e.left, target)
                              \/ ExprMentions(e.right, target)

\* A statement, its nested bodies included, contains the expression target.
RECURSIVE StmtMentions(_, _)
StmtMentions(stmt, target) ==
    IF stmt.item = "Expr" THEN ExprMentions(stmt.expr, target)
    ELSE IF stmt.item = "Assignment"
    THEN ExprMentions(stmt.assignment.variable, target)
         \/ ExprMentions(stmt.assignment.value, target)
    ELSE IF stmt.item = "Return" THEN ExprMentions(stmt.value, target)
    ELSE IF stmt.item = "If"
    THEN ExprMentions(stmt.condition, target)
         \/ \E i \in DOMAIN stmt.then_body : StmtMentions(stmt.then_body[i], target)
    ELSE IF stmt.item = "ForIn"
    THEN ExprMentions(stmt.iterable, target)
         \/ \E i \in DOMAIN stmt.body : StmtMentions(stmt.body[i], target)
    ELSE FALSE

\* field[_key]
ValueAccess(name) ==
    [kind |-> "IndexAccess",
     receiver |-> [kind |-> "Identifier", name |-> name],
     index |-> [kind |-> "Identifier", name |-> "_key"]]

\* _writer.write_varint_unsigned(field.size())
CountWrite(name) ==
    [item |-> "Expr",
     expr |-> [kind |-> "FnCall", receiver |-> WriterIdent, name |-> "write_varint_unsigned",
               args |-> << [kind |-> "FnCall",
                            receiver |-> [kind |-> "Identifier", name |-> name],
                            name |-> "size", args |-> <<>>] >>]]

\* The statements of a loop body that write the key: there is at least one,
\* the first names _key, and none touches the map's value field[_key].
IsKeyPart(stmts, name) ==
    /\ stmts # <<>>
    /\ StmtMentions(stmts[1], [kind |-> "Identifier", name |-> "_key"])
    /\ \A i \in DOMAIN stmts : ~StmtMentions(stmts[i], ValueAccess(name))

\* var _value := field[_key]; null guard on _value; _value._encode(_writer)
DelegatedValue(name) ==
    << [item |-> "Assignment",
        assignment |-> [declaration |-> "Var",
                        variable |-> [kind |-> "Identifier", name |-> "_value"],
                        type_hint |-> "Infer", value |-> ValueAccess(name)]],
       NullGuard("_value"),
       [item |-> "Expr",
        expr |-> [kind |-> "FnCall", receiver |-> [kind |-> "Identifier", name |-> "_value"],
                  name |-> "_encode", args |-> <<WriterIdent>>]] >>

\* _writer.<write op>(field[_key], extra args)
InlineValue(name, value) ==
    << [item |-> "Expr",
        expr |-> [kind |-> "FnCall", receiver |-> WriterIdent,
                  name |-> get_write_method(value).method,
                  args |-> <<ValueAccess(name)>> \o get_write_method(value).extra_args]] >>

\* The last n statements of a list.
LastN(stmts, n) == SubSeq(stmts, Len(stmts) - n + 1, Len(stmts))

\* C20: for a map field gen_encode_stmts emits the count write followed by one
\* loop `for _key in field` whose body writes the key before the value; a
\* message / enum value is bound to _value, null-guarded and delegated, a
\* primitive value is written inline as _writer.<write op>(field[_key], extra
\* args) with no local binding.
C20_MapEncodeShape ==
    (Encoded /\ encode_stmts.ok /\ encoding.native.type = "Map") =>
        LET stmts == encode_stmts.stmts
            value == encoding.native.value
            n     == IF value.native.type \in {"Message", "Enum"} THEN 3 ELSE 1
        IN  /\ Len(stmts) = 2
            /\ stmts[1] = CountWrite(field_name)
            /\ stmts[2].item = "ForIn"
            /\ stmts[2].variable = "_key"
            /\ stmts[2].iterable = [kind |-> "Identifier", name |-> field_name]
            /\ Len(stmts[2].body) > n
            /\ IsKeyPart(SubSeq(stmts[2].body, 1, Len(stmts[2].body) - n), field_name)
            /\ IF value.native.type \in {"Message", "Enum"}
               THEN LastN(stmts[2].body, 3) = DelegatedValue(field_name)
               ELSE /\ get_write_method(value).ok
                    /\ LastN(stmts[2].body, 1) = InlineValue(field_name, value)
                    /\ \A i \in DOMAIN stmts[2].body :
                           stmts[2].body[i].item = "Assignment" =>
                               stmts[2].body[i].assignment.variable
                                   # [kind |-> "Identifier", name |-> "_value"]

\* A map from a zig-zag integer to a string: the value is written inline with
\* the key write in front of it.
C20_Witness ==
    /\ Encoded
    /\ encode_stmts.ok
    /\ encoding.native.type = "Map"
    /\ encoding.native.key.native.type = "Int"
    /\ encoding.native.value.native.type = "String"
    /\ Len(encode_stmts.stmts[2].body) = 2
    /\ encode_stmts.stmts[2].body[2].expr.name = "write_string"

(***************************************************************************)
(* codec/enumeration.rs: the enum (discriminated union) codec.             *)
(***************************************************************************)
\* Variant::Unit { name, index }
Variant_Unit(name, index) == [kind |-> "Unit", name |-> name, index |-> index]

\* Variant::Field { name, index, field }
Variant_Field(name, index, enc) ==
    [kind |-> "Field", name |-> name, index |-> index, field |-> [encoding |-> enc]]

MatchArm(pattern, body) == [pattern |-> pattern, body |-> body]

Item_Match(scrutinee, arms) == [item |-> "Match", scrutinee |-> scrutinee, arms |-> arms]

\* if _discriminant == NONE: _writer.set_error(ERR_INVALID_DATA); return null
none_check ==
    Item_If(Expr_binary_op(Expr_ident("_discriminant"), "Eq", Expr_ident("NONE")),
            << Item_Expr(FnCall_method_args(Expr_ident("_writer"), "set_error",
                                            <<Expr_ident("ERR_INVALID_DATA")>>)),
               Item_Return(Expr_null) >>)

\* _writer.write_varint_signed(_discriminant)
write_discriminant ==
    Item_Expr(FnCall_method_args(Expr_ident("_writer"), "write_varint_signed",
                                 <<Expr_ident("_discriminant")>>))

\* The loop over the variants of gen_enum_encode_stmts: one arm per variant, the
\* first unresolvable field encoding ends the generation.
RECURSIVE encode_match_arms(_)
encode_match_arms(vs) ==
    IF vs = <<>> THEN [ok |-> TRUE, arms |-> <<>>]
    ELSE LET variant == Head(vs)
         IN  IF variant.kind = "Unit"
             THEN LET rest == encode_match_arms(Tail(vs))
                  IN  IF ~rest.ok THEN rest
                      ELSE [ok |-> TRUE,
                            arms |-> << MatchArm(Expr_ident(variant.name), <<>>) >>
                                     \o rest.arms]
             ELSE LET method == get_write_method(variant.field.encoding)
                  IN  IF ~method.ok THEN method
                      ELSE LET rest == encode_match_arms(Tail(vs))
                               write_value ==
                                   FnCall_method_args(Expr_ident("_writer"), method.method,
                                       <<Expr_ident("_value")>> \o method.extra_args)
                           IN  IF ~rest.ok THEN rest
                               ELSE [ok |-> TRUE,
                                     arms |-> << MatchArm(Expr_ident(variant.name),
                                                          << Item_Expr(write_value) >>) >>
                                              \o rest.arms]

\* Variant: the discriminant is written before the NONE check.
gen_enum_encode_stmts_write_first(vs) ==
    IF vs # <<>>
    THEN LET match_arms == encode_match_arms(vs)
         IN  IF ~match_arms.ok THEN match_arms
             ELSE OkStmts(<< write_discriminant, none_check,
                             Item_Match(Expr_ident("_discriminant"), match_arms.arms) >>)
    ELSE OkStmts(<< write_discriminant, none_check >>)

\* Variant: unit variants get no arm.
gen_enum_encode_stmts_field_arms_only(vs) ==
    IF vs # <<>>
    THEN LET match_arms == encode_match_arms(vs)
         IN  IF ~match_arms.ok THEN match_arms
             ELSE OkStmts(<< none_check, write_discriminant,
                             Item_Match(Expr_ident("_discriminant"),
                                        SelectSeq(match_arms.arms,
                                                  LAMBDA arm : arm.body # <<>>)) >>)
    ELSE OkStmts(<< none_check, write_discriminant >>)

gen_enum_encode_stmts(vs) ==
    IF vs # <<>>
    THEN LET match_arms == encode_match_arms(vs)
         IN  IF ~match_arms.ok THEN match_arms
             ELSE OkStmts(<< none_check, write_discriminant,
                             Item_Match(Expr_ident("_discriminant"), match_arms.arms) >>)
    ELSE OkStmts(<< none_check, write_discriminant >>)

\* The suffixes of the codec method names the resolver returns.
MethodSuffixes ==
    {"bool", "zigzag", "i8", "u8", "i16", "u16", "i32", "u32", "i64", "u64",
     "varint_signed", "varint_unsigned", "f32", "f64", "string"}

\* Variant: the method name is kept as resolved for writing.
replace_write_read_keeps_write(method) == method

\* method.replace("write", "read") on a resolved method name.
replace_write_read(method) ==
    IF \E x \in MethodSuffixes : method = "write_" \o x
    THEN "read_" \o (CHOOSE x \in MethodSuffixes : method = "write_" \o x)
    ELSE method

\* NONE: _reader.set_error(ERR_INVALID_DATA); return _reader.get_error()
none_arm ==
    MatchArm(Expr_ident("NONE"),
             << Item_Expr(FnCall_method_args(Expr_ident("_reader"), "set_error",
                                             <<Expr_ident("ERR_INVALID_DATA")>>)),
                Item_Return(FnCall_method(Expr_ident("_reader"), "get_error")) >>)

\* The loop over the variants of gen_enum_decode_stmts.
RECURSIVE decode_match_arms(_)
decode_match_arms(vs) ==
    IF vs = <<>> THEN [ok |-> TRUE, arms |-> <<>>]
    ELSE LET variant == Head(vs)
         IN  IF variant.kind = "Unit"
             THEN LET rest == decode_match_arms(Tail(vs))
                  IN  IF ~rest.ok THEN rest
                      ELSE [ok |-> TRUE,
                            arms |-> << MatchArm(Expr_ident(variant.name),
                                            << Item_Assignment(Assignment_reassign(
                                                   Expr_ident("_value"), Expr_null)) >>) >>
                                     \o rest.arms]
             ELSE LET method == get_write_method(variant.field.encoding)
                  IN  IF ~method.ok THEN method
                      ELSE LET rest == decode_match_arms(Tail(vs))
                               read_method_name == replace_write_read(method.method)
                               read_call == FnCall_method_args(Expr_ident("_reader"),
                                                read_method_name, method.extra_args)
                           IN  IF ~rest.ok THEN rest
                               ELSE [ok |-> TRUE,
                                     arms |-> << MatchArm(Expr_ident(variant.name),
                                                     << Item_Assignment(Assignment_reassign(
                                                            Expr_ident("_value"), read_call)),
                                                        gen_reader_error_check >>) >>
                                              \o rest.arms]

\* _discriminant = _reader.read_varint_signed()
read_discriminant ==
    Item_Assignment(Assignment_reassign(Expr_ident("_discriminant"),
                        FnCall_method(Expr_ident("_reader"), "read_varint_signed")))

\* Variant: the match has no NONE arm.
gen_enum_decode_stmts_no_none_arm(vs) ==
    LET match_arms == decode_match_arms(vs)
    IN  IF ~match_arms.ok THEN match_arms
        ELSE OkStmts(<< read_discriminant,
                        gen_reader_error_check,
                        Item_Match(Expr_ident("_discriminant"), match_arms.arms),
                        Item_Return(FnCall_method(Expr_ident("_reader"), "get_error")) >>)

\* Variant: the match ends with a catch-all arm that rejects the discriminant.
gen_enum_decode_stmts_catch_all(vs) ==
    LET match_arms == decode_match_arms(vs)
    IN  IF ~match_arms.ok THEN match_arms
        ELSE OkStmts(<< read_discriminant,
                        gen_reader_error_check,
                        Item_Match(Expr_ident("_discriminant"),
                                   <<none_arm>> \o match_arms.arms
                                   \o << MatchArm(Expr_ident("_"), none_arm.body) >>),
                        Item_Return(FnCall_method(Expr_ident("_reader"), "get_error")) >>)

gen_enum_decode_stmts(vs) ==
    LET match_arms == decode_match_arms(vs)
    IN  IF ~match_arms.ok THEN match_arms
        ELSE OkStmts(<< read_discriminant,
                        gen_reader_error_check,
                        Item_Match(Expr_ident("_discriminant"),
                                   <<none_arm>> \o match_arms.arms),
                        Item_Return(FnCall_method(Expr_ident("_reader"), "get_error")) >>)

\* GDSCRIPT_KEYWORDS: the reserved words of GDScript.
GDSCRIPT_KEYWORDS ==
    {"and", "as", "assert", "await", "break", "breakpoint", "class", "class_name", "const",
     "continue", "elif", "else", "enum", "extends", "false", "for", "func", "get", "if", "in",
     "is", "match", "not", "null", "or", "pass", "preload", "return", "self", "set", "signal",
     "static", "super", "true", "var", "while", "yield"}

\* escape_keyword: an underscore is appended to a name that is a reserved word.
escape_keyword(name) == IF name \in GDSCRIPT_KEYWORDS THEN name \o "_" ELSE name

\* gen_enum_decl: the entries (name, value) of the DISCRIMINANTS enum: NONE and
\* then one entry per variant, in variant order.
gen_enum_decl(vs) ==
    << <<"NONE", -1>> >> \o [i \in 1..Len(vs) |-> <<escape_keyword(vs[i].name), vs[i].index>>]

(***************************************************************************)
(* The enum codec as a state machine: the statements are generated for a   *)
(* variant list and then executed, statement by statement, on a union      *)
(* whose discriminant is any value (encode) or on a reader that delivers   *)
(* any value and may fail at any read (decode).  wire_trace lists the      *)
(* write / read operations performed, each with its outcome.               *)
(***************************************************************************)
\* The value of the NONE entry of the generated DISCRIMINANTS enum.
NONE == -1

MaxVariants == 3

\* The variants a list is drawn from: names and indices are unique per variant;
\* one name is a reserved word of GDScript.
VariantPool ==
    { Variant_Unit("IDLE", 0),
      Variant_Field("MOVE", 1, Encoding(Bits(32), NativeInt(32, TRUE), <<>>)),
      Variant_Field("DELTA", 2, Encoding(Bits(16), NativeInt(16, TRUE), <<"ZigZag">>)),
      Variant_Unit("QUIT", 3),
      Variant_Field("CHAT", 4, Encoding(Bits(8), NativeString, <<>>)),
      Variant_Unit("class", 5) }

\* The variant lists of up to MaxVariants variants, the empty list included.
VariantLists ==
    UNION { { vs \in [1..n -> VariantPool] :
                \A i, j \in 1..n : i # j => vs[i].name # vs[j].name }
            : n \in 0..MaxVariants }

\* The discriminant values a union holds or a reader delivers: NONE, the
\* declared indices, and one value no variant declares.
DiscriminantValues == NONE..6

\* The value of an identifier of the generated code: _discriminant, NONE or
\* the DISCRIMINANTS entry of a variant.
IdentValue(name) ==
    IF name = "_discriminant" THEN discriminant
    ELSE IF name = "NONE" THEN NONE
    ELSE IF \E i \in DOMAIN variants : variants[i].name = name
    THEN variants[CHOOSE i \in DOMAIN variants : variants[i].name = name].index
    ELSE NONE - 1

\* The error of the stream as get_error() returns it.
IsGetError(e) == e.kind = "FnCall" /\ e.name = "get_error"

\* The condition of a generated `if`: a comparison of the discriminant with an
\* enum entry, or of the stream's error with OK.
CondHolds(c) ==
    LET equal == IF IsGetError(c.left) THEN stream_error = c.right.name
                 ELSE IdentValue(c.left.name) = IdentValue(c.right.name)
    IN  IF c.op = "Eq" THEN equal ELSE ~equal

\* The body of the first arm whose pattern equals the scrutinee or is the
\* wildcard `_`, if any.
SelectedArm(m) ==
    LET hits == {i \in DOMAIN m.arms :
                    \/ m.arms[i].pattern.name = "_"
                    \/ IdentValue(m.arms[i].pattern.name) = IdentValue(m.scrutinee.name)}
    IN  IF hits = {} THEN <<>>
        ELSE m.arms[CHOOSE i \in hits : \A j \in hits : i <= j].body

InitEnum ==
    /\ FieldIdle
    /\ CallIdle
    /\ EmitIdle
    /\ CodecIdle
    /\ PkgIdle
    /\ enum_pc = "start"
    /\ variants \in VariantLists
    /\ direction \in {"encode", "decode"}
    /\ enum_decl = <<>>
    /\ enum_stmts = NotRun
    /\ todo = <<>>
    /\ discriminant \in IF direction = "encode" THEN DiscriminantValues ELSE {NONE}
    /\ value_assigned = FALSE
    /\ stream_error = "OK"
    /\ wire_trace = <<>>
    /\ returned = "none"

\* generate_enum: the DISCRIMINANTS declaration (for a non-empty variant list)
\* and the statements of _encode / _decode are generated.
GenEnum ==
    /\ enum_pc = "start"
    /\ enum_decl' = IF variants # <<>> THEN gen_enum_decl(variants) ELSE <<>>
    /\ enum_stmts' = IF direction = "encode" THEN gen_enum_encode_stmts(variants)
                     ELSE gen_enum_decode_stmts(variants)
    /\ enum_pc' = IF enum_stmts'.ok THEN "running" ELSE "failed"
    /\ todo' = IF enum_stmts'.ok THEN enum_stmts'.stmts ELSE <<>>
    /\ UNCHANGED <<variants, direction, discriminant, value_assigned, stream_error,
                   wire_trace, returned, field_vars, call_vars, emit_vars, codec_vars, pkg_vars>>

\* if <condition>: <then_body>
ExecIf ==
    /\ enum_pc = "running" /\ todo # <<>> /\ Head(todo).item = "If"
    /\ todo' = IF CondHolds(Head(todo).condition)
               THEN Head(todo).then_body \o Tail(todo)
               ELSE Tail(todo)
    /\ UNCHANGED <<enum_pc, variants, direction, enum_stmts, discriminant, value_assigned,
                   stream_error, wire_trace, returned, enum_decl,
                   field_vars, call_vars, emit_vars, codec_vars, pkg_vars>>

\* _writer.set_error(E) / _reader.set_error(E), or a write operation.
ExecCall ==
    /\ enum_pc = "running" /\ todo # <<>> /\ Head(todo).item = "Expr"
    /\ LET call == Head(todo).expr
       IN  IF call.name = "set_error"
           THEN /\ stream_error' = call.args[1].name
                /\ UNCHANGED wire_trace
           ELSE /\ wire_trace' = Append(wire_trace, [name |-> call.name, args |-> call.args,
                                                     failed |-> FALSE])
                /\ UNCHANGED stream_error
    /\ todo' = Tail(todo)
    /\ UNCHANGED <<enum_pc, variants, direction, enum_stmts, discriminant, value_assigned,
                   returned, enum_decl,
                   field_vars, call_vars, emit_vars, codec_vars, pkg_vars>>

\* _discriminant = _reader.read_...() / _value = _reader.read_...() / _value = null:
\* a read delivers any value and may leave an error on the reader.
ExecAssign ==
    /\ enum_pc = "running" /\ todo # <<>> /\ Head(todo).item = "Assignment"
    /\ LET a == Head(todo).assignment
           reads == a.value.kind = "FnCall"
       IN  /\ IF a.variable.name = "_discriminant"
              THEN /\ discriminant' \in DiscriminantValues
                   /\ UNCHANGED value_assigned
              ELSE /\ value_assigned' = TRUE
                   /\ UNCHANGED discriminant
           /\ IF reads
              THEN \E failed \in BOOLEAN :
                       /\ wire_trace' = Append(wire_trace,
                                               [name |-> a.value.name, args |-> a.value.args,
                                                failed |-> failed])
                       /\ stream_error' = IF failed THEN "ERR_FILE_EOF" ELSE stream_error
              ELSE UNCHANGED <<wire_trace, stream_error>>
    /\ todo' = Tail(todo)
    /\ UNCHANGED <<enum_pc, variants, direction, enum_stmts, returned, enum_decl,
                   field_vars, call_vars, emit_vars, codec_vars, pkg_vars>>

\* match <scrutinee>: the first arm whose pattern equals it runs, if any.
ExecMatch ==
    /\ enum_pc = "running" /\ todo # <<>> /\ Head(todo).item = "Match"
    /\ todo' = SelectedArm(Head(todo)) \o Tail(todo)
    /\ UNCHANGED <<enum_pc, variants, direction, enum_stmts, discriminant, value_assigned,
                   stream_error, wire_trace, returned, enum_decl,
                   field_vars, call_vars, emit_vars, codec_vars, pkg_vars>>

\* return <value>: the rest of the statements is not executed.
ExecReturn ==
    /\ enum_pc = "running" /\ todo # <<>> /\ Head(todo).item = "Return"
    /\ returned' = IF IsGetError(Head(todo).value) THEN stream_error
                   ELSE Head(todo).value.name
    /\ todo' = <<>>
    /\ enum_pc' = "done"
    /\ UNCHANGED <<variants, direction, enum_stmts, discriminant, value_assigned,
                   stream_error, wire_trace, enum_decl,
                   field_vars, call_vars, emit_vars, codec_vars, pkg_vars>>

\* The end of the statement list is reached without a return.
ExecEnd ==
    /\ enum_pc = "running" /\ todo = <<>>
    /\ enum_pc' = "done"
    /\ UNCHANGED <<variants, direction, enum_stmts, todo, discriminant, value_assigned,
                   stream_error, wire_trace, returned, enum_decl,
                   field_vars, call_vars, emit_vars, codec_vars, pkg_vars>>

NextEnum == GenEnum \/ ExecIf \/ ExecCall \/ ExecAssign \/ ExecMatch \/ ExecReturn \/ ExecEnd

SpecEnum == InitEnum /\ [][NextEnum]_vars

(***************************************************************************)
(* Claims about the enum codec.                                            *)
(***************************************************************************)
EnumGenerated == enum_pc \in {"running", "done"}

\* if _discriminant == NONE: _writer.set_error(ERR_INVALID_DATA); return null
NoneGuard ==
    [item |-> "If",
     condition |-> [kind |-> "BinaryOp",
                    left |-> [kind |-> "Identifier", name |-> "_discriminant"],
                    op |-> "Eq",
                    right |-> [kind |-> "Identifier", name |-> "NONE"]],
     then_body |-> << [item |-> "Expr",
                       expr |-> [kind |-> "FnCall", receiver |-> WriterIdent,
                                 name |-> "set_error",
                                 args |-> <<[kind |-> "Identifier",
                                             name |-> "ERR_INVALID_DATA"]>>]],
                      [item |-> "Return", value |-> [kind |-> "Identifier", name |-> "null"]] >>,
     has_else |-> FALSE]

\* _writer.write_varint_signed(_discriminant)
DiscriminantWrite ==
    [item |-> "Expr",
     expr |-> [kind |-> "FnCall", receiver |-> WriterIdent, name |-> "write_varint_signed",
               args |-> <<[kind |-> "Identifier", name |-> "_discriminant"]>>]]

\* C11: executing the statements of gen_enum_encode_stmts with _discriminant
\* equal to NONE never executes the discriminant write or a payload write, and
\* ends with ERR_INVALID_DATA set on the writer and a return of null, for every
\* variant list, the empty one included.
C11_NoneDiscriminantAbortsEncode ==
    (EnumGenerated /\ direction = "encode" /\ discriminant = NONE) =>
        /\ wire_trace = <<>>
        /\ enum_pc = "done" => (stream_error = "ERR_INVALID_DATA" /\ returned = "null")

\* The encode of a union without variants has run to its end on a NONE discriminant.
C11_Witness ==
    /\ enum_pc = "done"
    /\ direction = "encode"
    /\ variants = <<>>
    /\ discriminant = NONE
    /\ stream_error = "ERR_INVALID_DATA"
    /\ returned = "null"

\* One arm per variant, in declaration order, with pairwise distinct patterns:
\* an empty body for a unit variant, the single call
\* _writer.<write op>(_value, extra args) for a field variant.
ArmsFollowVariants(arms) ==
    /\ Len(arms) = Len(variants)
    /\ \A i, j \in DOMAIN arms : i # j => arms[i].pattern # arms[j].pattern
    /\ \A i \in DOMAIN arms :
           /\ arms[i].pattern = [kind |-> "Identifier", name |-> variants[i].name]
           /\ IF variants[i].kind = "Unit" THEN arms[i].body = <<>>
              ELSE LET method == get_write_method(variants[i].field.encoding)
                   IN  /\ method.ok
                       /\ \E x \in MethodSuffixes : method.method = "write_" \o x
                       /\ arms[i].body =
                              << [item |-> "Expr",
                                  expr |-> [kind |-> "FnCall", receiver |-> WriterIdent,
                                            name |-> method.method,
                                            args |-> <<[kind |-> "Identifier",
                                                        name |-> "_value"]>>
                                                     \o method.extra_args]] >>

\* The positions of the payload writes among the operations performed so far.
PayloadWrites ==
    {i \in DOMAIN wire_trace :
        wire_trace[i].args # <<>>
        /\ wire_trace[i].args[1] = [kind |-> "Identifier", name |-> "_value"]}

\* At most one payload write has been executed, and the discriminant write
\* came right before it.
AtMostOnePayloadWrite ==
    /\ Cardinality(PayloadWrites) <= 1
    /\ \A i \in PayloadWrites :
           /\ i = 2
           /\ wire_trace[1] = [name |-> "write_varint_signed",
                               args |-> <<[kind |-> "Identifier", name |-> "_discriminant"]>>,
                               failed |-> FALSE]

\* C12 as stated: after the NONE guard and the discriminant write,
\* gen_enum_encode_stmts emits a match on _discriminant with exactly one arm per
\* variant, for every variant list; at most one payload write executes and it
\* follows the discriminant write.
C12_MatchAfterDiscriminantWrite ==
    (EnumGenerated /\ direction = "encode") =>
        /\ Len(enum_stmts.stmts) = 3
        /\ enum_stmts.stmts[1] = NoneGuard
        /\ enum_stmts.stmts[2] = DiscriminantWrite
        /\ enum_stmts.stmts[3].item = "Match"
        /\ enum_stmts.stmts[3].scrutinee = [kind |-> "Identifier", name |-> "_discriminant"]
        /\ ArmsFollowVariants(enum_stmts.stmts[3].arms)
        /\ AtMostOnePayloadWrite

\* C12, amended: for a non-empty variant list the NONE guard and the
\* discriminant write are followed by a match on _discriminant with exactly one
\* arm per variant in declaration order and pairwise distinct patterns (empty
\* body for a unit variant, one _writer.<write op>(_value, extra args) call for a
\* field variant); for an empty variant list no match is emitted.  In both cases
\* at most one payload write executes and it follows the discriminant write.
C12_MatchForNonEmptyVariantList ==
    (EnumGenerated /\ direction = "encode") =>
        /\ enum_stmts.stmts[1] = NoneGuard
        /\ enum_stmts.stmts[2] = DiscriminantWrite
        /\ IF variants = <<>> THEN Len(enum_stmts.stmts) = 2
           ELSE /\ Len(enum_stmts.stmts) = 3
                /\ enum_stmts.stmts[3].item = "Match"
                /\ enum_stmts.stmts[3].scrutinee
                       = [kind |-> "Identifier", name |-> "_discriminant"]
                /\ ArmsFollowVariants(enum_stmts.stmts[3].arms)
        /\ AtMostOnePayloadWrite

\* A union of a unit variant and two field variants has been encoded with the
\* discriminant of its third variant: the payload write followed the
\* discriminant write.
C12_Witness ==
    /\ enum_pc = "done"
    /\ direction = "encode"
    /\ Len(variants) = 3
    /\ variants[1].kind = "Unit"
    /\ variants[2].kind = "Field"
    /\ variants[3].kind = "Field"
    /\ discriminant = variants[3].index
    /\ Len(wire_trace) = 2
    /\ PayloadWrites = {2}

\* _discriminant = _reader.read_varint_signed()
DiscriminantRead ==
    [item |-> "Assignment",
     assignment |-> [declaration |-> "None",
                     variable |-> [kind |-> "Identifier", name |-> "_discriminant"],
                     type_hint |-> "None",
                     value |-> [kind |-> "FnCall", receiver |-> ReaderIdent,
                                name |-> "read_varint_signed", args |-> <<>>]]]

\* C13: the statements of gen_enum_decode_stmts start with the assignment of
\* _discriminant from _reader.read_varint_signed() and the error-check guard;
\* when the discriminant read is NONE no payload read is performed and _value
\* is not assigned, and when that read succeeded the run ends with
\* ERR_INVALID_DATA set on the reader and returned.
C13_NoneDiscriminantAbortsDecode ==
    (EnumGenerated /\ direction = "decode") =>
        /\ enum_stmts.stmts[1] = DiscriminantRead
        /\ enum_stmts.stmts[2] = ErrorCheckGuard
        /\ discriminant = NONE =>
               /\ ~value_assigned
               /\ Len(wire_trace) <= 1
               /\ \A i \in DOMAIN wire_trace : wire_trace[i].name = "read_varint_signed"
               /\ (enum_pc = "done" /\ ~wire_trace[1].failed) =>
                      (stream_error = "ERR_INVALID_DATA" /\ returned = "ERR_INVALID_DATA")

\* The decode of a union with a field variant has ended after a successful
\* read of NONE.
C13_Witness ==
    /\ enum_pc = "done"
    /\ direction = "decode"
    /\ \E i \in DOMAIN variants : variants[i].kind = "Field"
    /\ discriminant = NONE
    /\ Len(wire_trace) = 1
    /\ ~wire_trace[1].failed
    /\ returned = "ERR_INVALID_DATA"

(***************************************************************************)
(* The recursion of gen_encode_stmts / gen_decode_stmts, call by call.     *)
(***************************************************************************)
\* Variant: the map generators also recurse on the value.
recursive_calls_map_value(dir, enc) ==
    LET native == enc.native
    IN  IF native.type = "Array"
        THEN IF native.element.native.type \in {"Message", "Enum"} THEN <<>>
             ELSE << native.element >>
        ELSE IF native.type = "Map" THEN << native.key, native.value >>
        ELSE <<>>

\* The encodings one call of gen_encode_stmts / gen_decode_stmts hands to a
\* recursive call of itself.  encode: the element of an array whose element is
\* no message / enum (gen_encode_array_primitive), the key of a map
\* (gen_encode_map_primitive, gen_encode_map_message; the value is resolved by
\* get_write_method or delegated).  decode: the element of an array whose
\* element is no message / enum (gen_decode_array_primitive); a map resolves
\* its key and value by get_read_method.  A message / enum reference emits the
\* _encode / _decode call and recurses on nothing.
recursive_calls(dir, enc) ==
    LET native == enc.native
    IN  IF native.type = "Array"
        THEN IF native.element.native.type \in {"Message", "Enum"} THEN <<>>
             ELSE << native.element >>
        ELSE IF native.type = "Map" /\ dir = "encode" THEN << native.key >>
        ELSE <<>>

InitCalls ==
    /\ pc = "off"
    /\ field_name \in FieldNames
    /\ encoding \in Nested(MaxDepth)
    /\ write_method = NotRun
    /\ read_method = NotRun
    /\ encode_stmts = NotRun
    /\ decode_stmts = NotRun
    /\ EnumIdle
    /\ EmitIdle
    /\ CodecIdle
    /\ PkgIdle
    /\ gen_pc = "running"
    /\ gen_direction \in {"encode", "decode"}
    /\ call_stack = << encoding >>
    /\ calls = 0

\* One call of gen_encode_stmts / gen_decode_stmts is entered.
GenCall ==
    /\ gen_pc = "running"
    /\ call_stack # <<>>
    /\ calls' = calls + 1
    /\ call_stack' = recursive_calls(gen_direction, Head(call_stack)) \o Tail(call_stack)
    /\ UNCHANGED <<gen_pc, gen_direction, field_vars, enum_vars, emit_vars, codec_vars, pkg_vars>>

\* The outermost call returns.
GenReturn ==
    /\ gen_pc = "running"
    /\ call_stack = <<>>
    /\ gen_pc' = "done"
    /\ UNCHANGED <<gen_direction, call_stack, calls, field_vars, enum_vars, emit_vars, codec_vars, pkg_vars>>

NextCalls == GenCall \/ GenReturn

SpecCalls == InitCalls /\ [][NextCalls]_vars

\* The generator is a sequential program: a call that can be made is made.
SpecCallsFair == SpecCalls /\ WF_vars(NextCalls)

\* The array / map nesting depth of an encoding.
RECURSIVE NestingDepth(_)
NestingDepth(enc) ==
    IF enc.native.type = "Array" THEN 1 + NestingDepth(enc.native.element)
    ELSE IF enc.native.type = "Map"
    THEN 1 + (IF NestingDepth(enc.native.key) >= NestingDepth(enc.native.value)
              THEN NestingDepth(enc.native.key)
              ELSE NestingDepth(enc.native.value))
    ELSE 0

\* C14: gen_encode_stmts and gen_decode_stmts terminate on every encoding, and
\* the number of recursive calls (the calls after the outermost one) never
\* exceeds the encoding's array / map nesting depth; a call on a message or
\* enum reference makes no further call.
C14_GenerationTerminates ==
    /\ [](calls <= 1 + NestingDepth(encoding))
    /\ [][(call_stack # <<>> /\ Head(call_stack).native.type \in {"Message", "Enum"})
             => call_stack' = Tail(call_stack)]_vars
    /\ <>(gen_pc = "done")

\* The decode of an array of arrays of messages has returned after one
\* recursive call: the message reference at the bottom was not entered.
C14_Witness ==
    /\ gen_pc = "done"
    /\ gen_direction = "decode"
    /\ encoding.native.type = "Array"
    /\ encoding.native.element.native.type = "Array"
    /\ encoding.native.element.native.element.native.type = "Message"
    /\ calls = 2

(***************************************************************************)
(* ast: emitting nodes through the code writer.                            *)
(*                                                                         *)
(* An emit threads the state st of the code writer and the sink:           *)
(*   level   the indent level of the code writer,                          *)
(*   writes  the number of writes handed to the sink so far,               *)
(*   log     the indent / outdent calls and the writes, each with the      *)
(*           level at that moment and, for a write, whether it succeeded,  *)
(*   err     the Result of the last call is an Err.                        *)
(* The write number fail_at fails (0: no write fails).                     *)
(***************************************************************************)
\* cw.indent()
cw_indent(st) ==
    [st EXCEPT !.level = st.level + 1,
               !.log = Append(st.log, [op |-> "indent", text |-> "", level |-> st.level + 1,
                                       ok |-> TRUE])]

\* cw.outdent()
cw_outdent(st) ==
    LET level == IF st.level > 0 THEN st.level - 1 ELSE 0
    IN  [st EXCEPT !.level = level,
                   !.log = Append(st.log, [op |-> "outdent", text |-> "", level |-> level,
                                           ok |-> TRUE])]

\* One write handed to the sink: it fails when it is write number fail_at.
sink_write(st, op, text) ==
    LET n == st.writes + 1
    IN  [st EXCEPT !.writes = n,
                   !.err = (n = fail_at),
                   !.log = Append(st.log, [op |-> op, text |-> text, level |-> st.level,
                                           ok |-> n # fail_at])]

\* cw.write(w, text)
cw_write(st, text) == sink_write(st, "write", text)

\* cw.writeln(w, text): text on a line of its own at the current indent level.
cw_writeln(st, text) == sink_write(st, "writeln", text)

\* cw.newline(w)
cw_newline(st) == sink_write(st, "newline", "")

\* cw.comment_block(w, text)
cw_comment_block(st, text) == sink_write(st, "comment_block", text)

\* cw.get_indent(): one tab per indent level.
RECURSIVE Tabs(_)
Tabs(n) == IF n = 0 THEN "" ELSE "\t" \o Tabs(n - 1)

cw_get_indent(st) == Tabs(st.level)

\* The `?` operator: an Err is returned at once, otherwise the emit goes on.
Q(st, rest(_)) == LET s == st IN IF s.err THEN s ELSE rest(s)

\* anyhow::bail!
bail(st) == [st EXCEPT !.err = TRUE]

\* A value that is None: a parameter has no value.
NoValue == [kind |-> "None"]

\* Assignment::param: `name: Type`.
Assignment_param(name, hint) ==
    [declaration |-> "None", variable |-> Expr_ident(name), type_hint |-> hint,
     value |-> NoValue]

\* If with an else body.
Item_IfElse(condition, then_body, else_body) ==
    [item |-> "If", condition |-> condition, then_body |-> then_body, has_else |-> TRUE,
     else_body |-> else_body]

\* FnDef; comment "" and return_value NoValue stand for None, type_hint is
\* "None", "Infer" or the explicit hint.
Item_FnDef(comment, name, params, type_hint, body, return_value) ==
    [item |-> "FnDef", comment |-> comment, name |-> name, params |-> params,
     type_hint |-> type_hint, body |-> body, return_value |-> return_value]

\* EnumDecl; name "" stands for None; variants are (name, value) pairs with
\* the value already formatted.
EnumDecl(name, decl_variants) == [item |-> "EnumDecl", name |-> name, variants |-> decl_variants]

\* A Block on its own.
Block(body) == [item |-> "Block", body |-> body]

RECURSIVE Expr_emit(_, _)
RECURSIVE Args_emit(_, _, _)

\* The argument loop of FnCall::emit: ", " before every argument but the first.
Args_emit(args, i, st) ==
    IF i > Len(args) THEN st
    ELSE LET s1 == IF i > 1 THEN cw_write(st, ", ") ELSE st
         IN  Q(Q(s1, LAMBDA s : Expr_emit(args[i], s)),
               LAMBDA s : Args_emit(args, i + 1, s))

Expr_emit(e, st) ==
    IF e.kind = "Identifier" THEN cw_write(st, e.name)
    ELSE IF e.kind = "BinaryOp"
    THEN Q(Q(Q(Q(Expr_emit(e.left, st),
                 LAMBDA s : cw_write(s, " ")),
               LAMBDA s : cw_write(s, IF e.op = "Eq" THEN "==" ELSE "!=")),
             LAMBDA s : cw_write(s, " ")),
           LAMBDA s : Expr_emit(e.right, s))
    ELSE IF e.kind = "IndexAccess"
    THEN Q(Q(Q(Expr_emit(e.receiver, st),
               LAMBDA s : cw_write(s, "[")),
             LAMBDA s : Expr_emit(e.index, s)),
           LAMBDA s : cw_write(s, "]"))
    ELSE IF e.kind = "Literal"
    THEN IF e.lit = "Int" THEN cw_write(st, ToString(e.int))
         ELSE IF e.lit = "Array"
         THEN Q(Q(cw_write(st, "["), LAMBDA s : Args_emit(e.items, 1, s)),
                LAMBDA s : cw_write(s, "]"))
         ELSE Q(cw_write(st, "{"), LAMBDA s : cw_write(s, "}"))
    ELSE \* FnCall
         LET s1 == IF e.receiver.kind # "None"
                   THEN Q(Expr_emit(e.receiver, st), LAMBDA s : cw_write(s, "."))
                   ELSE st
         IN  Q(Q(Q(s1, LAMBDA s : cw_write(s, e.name \o "(")),
                 LAMBDA s : Args_emit(e.args, 1, s)),
               LAMBDA s : cw_write(s, ")"))

\* emit_value for ValueKind::Expr
emit_value(value, st) == Q(cw_write(st, " "), LAMBDA s : Expr_emit(value, s))

Assignment_emit(a, st) ==
    LET s1 == IF a.declaration = "None" THEN st
              ELSE IF a.declaration = "Const" THEN cw_write(st, "const ")
              ELSE cw_write(st, "var ")
        s2 == Q(s1, LAMBDA s : Expr_emit(a.variable, s))
    IN  Q(s2, LAMBDA s :
            IF a.type_hint \notin {"None", "Infer"} /\ a.value = NoValue
            THEN cw_write(s, ": " \o a.type_hint)
            ELSE IF a.type_hint = "None" /\ a.value # NoValue
            THEN Q(cw_write(s, " ="), LAMBDA t : emit_value(a.value, t))
            ELSE IF a.type_hint = "Infer" /\ a.value # NoValue
            THEN Q(cw_write(s, " :="), LAMBDA t : emit_value(a.value, t))
            ELSE IF a.value # NoValue
            THEN Q(cw_write(s, ": " \o a.type_hint \o " ="), LAMBDA t : emit_value(a.value, t))
            ELSE bail(s))

RECURSIVE Item_emit(_, _)
RECURSIVE Items_emit(_, _)
RECURSIVE Block_emit(_, _)
RECURSIVE If_emit(_, _)
RECURSIVE ForIn_emit(_, _)
RECURSIVE Match_emit(_, _)
RECURSIVE Arms_emit(_, _)
RECURSIVE FnDef_emit(_, _)
RECURSIVE Params_emit(_, _, _)

\* for item in &self.body { item.emit(cw, w)?; }
Items_emit(items, st) ==
    IF items = <<>> THEN st
    ELSE Q(Item_emit(Head(items), st), LAMBDA s : Items_emit(Tail(items), s))

\* Variant: an empty body is left out instead of rendered as `pass`.
Block_emit_skips_empty(body, st) ==
    LET s1 == cw_indent(st)
        s2 == Items_emit(body, s1)
    IN  Q(s2, LAMBDA s : cw_outdent(s))

Block_emit(body, st) ==
    LET s1 == cw_indent(st)
        s2 == IF body = <<>> THEN cw_writeln(s1, "pass") ELSE Items_emit(body, s1)
    IN  Q(s2, LAMBDA s : cw_outdent(s))

ForIn_emit(f, st) ==
    Q(Q(Q(Q(cw_write(st, "for " \o f.variable \o " in "),
            LAMBDA s : Expr_emit(f.iterable, s)),
          LAMBDA s : cw_write(s, ":")),
        LAMBDA s : cw_newline(s)),
      LAMBDA s : Block_emit(f.body, s))

\* The else part of If::emit.
Else_emit(i, st) ==
    IF i.has_else
    THEN Q(Q(Q(cw_newline(st),
               LAMBDA s : cw_write(s, "else:")),
             LAMBDA s : cw_newline(s)),
           LAMBDA s : Block_emit(i.else_body, s))
    ELSE st

\* Variant: the result of emitting the then body is dropped.
If_emit_drops_then_result(i, st) ==
    LET s1 == Q(Q(Q(Q(cw_write(st, "if "),
                      LAMBDA s : Expr_emit(i.condition, s)),
                    LAMBDA s : cw_write(s, ":")),
                  LAMBDA s : cw_newline(s)),
                LAMBDA s : [Block_emit(i.then_body, s) EXCEPT !.err = FALSE])
    IN  Q(s1, LAMBDA s : Else_emit(i, s))

If_emit(i, st) ==
    LET s1 == Q(Q(Q(Q(cw_write(st, "if "),
                      LAMBDA s : Expr_emit(i.condition, s)),
                    LAMBDA s : cw_write(s, ":")),
                  LAMBDA s : cw_newline(s)),
                LAMBDA s : Block_emit(i.then_body, s))
    IN  Q(s1, LAMBDA s : Else_emit(i, s))

\* for arm in &self.arms { ... }
Arms_emit(arms, st) ==
    IF arms = <<>> THEN st
    ELSE LET arm == Head(arms)
         IN  Q(Q(Q(Q(Q(Q(cw_write(st, cw_get_indent(st)),
                         LAMBDA s : Expr_emit(arm.pattern, s)),
                       LAMBDA s : cw_write(s, ":")),
                     LAMBDA s : cw_newline(s)),
                   LAMBDA s : Block_emit(arm.body, s)),
                 LAMBDA s : cw_newline(s)),
               LAMBDA s : Arms_emit(Tail(arms), s))

\* Variant: the indent around the arms is not taken back.
Match_emit_no_outdent(m, st) ==
    LET s1 == Q(Q(Q(cw_write(st, "match "),
                    LAMBDA s : Expr_emit(m.scrutinee, s)),
                  LAMBDA s : cw_write(s, ":")),
                LAMBDA s : cw_newline(s))
    IN  Q(s1, LAMBDA s : Arms_emit(m.arms, cw_indent(s)))

Match_emit(m, st) ==
    LET s1 == Q(Q(Q(cw_write(st, "match "),
                    LAMBDA s : Expr_emit(m.scrutinee, s)),
                  LAMBDA s : cw_write(s, ":")),
                LAMBDA s : cw_newline(s))
        s2 == Q(s1, LAMBDA s : Arms_emit(m.arms, cw_indent(s)))
    IN  Q(s2, LAMBDA s : cw_outdent(s))

\* The parameter loop of FnDef::emit: ", " after every parameter but the last.
Params_emit(params, i, st) ==
    IF i > Len(params) THEN st
    ELSE LET s1 == Assignment_emit(params[i], st)
             s2 == IF i < Len(params) THEN Q(s1, LAMBDA s : cw_write(s, ", ")) ELSE s1
         IN  Q(s2, LAMBDA s : Params_emit(params, i + 1, s))

\* The trailing `return <expr>` of FnDef::emit.
Return_value_emit(f, st) ==
    IF f.return_value # NoValue
    THEN LET s1 == cw_indent(st)
             s2 == Q(cw_write(s1, cw_get_indent(s1) \o "return "),
                     LAMBDA s : Expr_emit(f.return_value, s))
         IN  Q(s2, LAMBDA s : cw_newline(cw_outdent(s)))
    ELSE st

FnDef_emit(f, st) ==
    LET s1 == IF f.comment # "" THEN cw_comment_block(st, f.comment) ELSE st
        s2 == Q(Q(Q(s1, LAMBDA s : cw_write(s, "func " \o f.name \o "(")),
                  LAMBDA s : Params_emit(f.params, 1, s)),
                LAMBDA s : cw_write(s, ")"))
        s3 == Q(s2, LAMBDA s : IF f.type_hint \in {"None", "Infer"} THEN cw_writeln(s, ":")
                                ELSE cw_writeln(s, " -> " \o f.type_hint \o ":"))
    IN  Q(Q(s3, LAMBDA s : Block_emit(f.body, s)),
          LAMBDA s : Return_value_emit(f, s))

\* Item::emit; a match statement is an item of the enum codec's statement lists.
Item_emit(item, st) ==
    IF item.item = "Expr" THEN Expr_emit(item.expr, st)
    ELSE IF item.item = "Assignment" THEN Assignment_emit(item.assignment, st)
    ELSE IF item.item = "ForIn" THEN ForIn_emit(item, st)
    ELSE IF item.item = "If" THEN If_emit(item, st)
    ELSE IF item.item = "FnDef" THEN FnDef_emit(item, st)
    ELSE IF item.item = "Match" THEN Match_emit(item, st)
    ELSE Q(cw_write(st, "return "), LAMBDA s : Expr_emit(item.value, s))

\* The variant loop of EnumDecl::emit: a newline after every variant but the last.
RECURSIVE EnumVariants_emit(_, _, _)
EnumVariants_emit(vs, i, st) ==
    IF i > Len(vs) THEN st
    ELSE LET s1 == Q(cw_write(st, cw_get_indent(st)),
                     LAMBDA s : cw_write(s, vs[i][1] \o " = " \o vs[i][2] \o ","))
             s2 == IF i < Len(vs) THEN Q(s1, LAMBDA s : cw_newline(s)) ELSE s1
         IN  Q(s2, LAMBDA s : EnumVariants_emit(vs, i + 1, s))

EnumDecl_emit(e, st) ==
    LET s1 == cw_write(st, "enum")
        s2 == IF e.name # "" THEN Q(s1, LAMBDA s : cw_write(s, " " \o e.name)) ELSE s1
        s3 == Q(Q(s2, LAMBDA s : cw_write(s, " {")), LAMBDA s : cw_newline(s))
        s4 == Q(s3, LAMBDA s : EnumVariants_emit(e.variants, 1, cw_indent(s)))
    IN  Q(Q(Q(s4, LAMBDA s : cw_outdent(s)),
            LAMBDA s : cw_newline(s)),
          LAMBDA s : cw_write(s, "}"))

\* emit of any node.
Node_emit(n, st) ==
    IF n.item = "Block" THEN Block_emit(n.body, st)
    ELSE IF n.item = "EnumDecl" THEN EnumDecl_emit(n, st)
    ELSE Item_emit(n, st)

(***************************************************************************)
(* Emit as a state machine: a node, the indent level on entry and the      *)
(* write that fails are picked, then the node is emitted.                  *)
(***************************************************************************)
MaxEmitDepth == 2

MaxFailAt == 14

MaxEntryLevel == 1

\* _writer.write_bool(flag)
stmt_call ==
    Item_Expr(FnCall_method_args(Expr_ident("_writer"), "write_bool", <<Expr_ident("flag")>>))

\* var _x := 1
stmt_var == Item_Assignment(Assignment_var("_x", Expr_literal_int(1)))

\* An assignment without type hint and without value: emit bails out.
stmt_invalid ==
    Item_Assignment([declaration |-> "None", variable |-> Expr_ident("_x"),
                     type_hint |-> "None", value |-> NoValue])

\* Statement lists without nested blocks.
FlatBodies == { <<>>, << stmt_call >>, << stmt_var, Item_Return(Expr_null) >> }

\* The constructs around a body: if, if / else (the body on either side),
\* for-in, match (a unit-like arm with an empty body before the arm with the
\* body), function definition (with comment, parameters and trailing return).
Around(body) ==
    { Item_If(Expr_ident("ready"), body),
      Item_IfElse(Expr_binary_op(Expr_ident("_item"), "Eq", Expr_null), body, <<>>),
      Item_IfElse(Expr_ident("ready"), << stmt_call >>, body),
      Item_ForIn("_item", Expr_ident("items"), body),
      Item_Match(Expr_ident("_discriminant"),
                 << MatchArm(Expr_ident("NONE"), <<>>),
                    MatchArm(Expr_ident("MOVE"), body) >>),
      Item_FnDef("_encode serializes the enum.", "_encode",
                 << Assignment_param("_writer", "_Writer"),
                    Assignment_param("_flags", "int") >>,
                 "void", body, Expr_ident("OK")) }

\* Statement lists nested up to depth d.
RECURSIVE Bodies(_)
Bodies(d) ==
    IF d = 0 THEN FlatBodies
    ELSE LET inner == UNION { Around(b) : b \in Bodies(d - 1) }
         IN  FlatBodies \cup { << n >> : n \in inner } \cup { << n, stmt_call >> : n \in inner }

\* The enum declarations: anonymous without variants, named with one and two.
EnumDecls ==
    { EnumDecl("", <<>>),
      EnumDecl("Status", << <<"NONE", "-1">> >>),
      EnumDecl("", << <<"NONE", "-1">>, <<"MOVE", "1">> >>) }

\* The nodes handed to emit.
EmitNodes ==
    { Block(b) : b \in Bodies(MaxEmitDepth) }
    \cup UNION { Around(b) : b \in Bodies(MaxEmitDepth - 1) }
    \cup EnumDecls
    \cup { Block(<< stmt_call, stmt_invalid, stmt_call >>),
           Item_Match(Expr_ident("_discriminant"), <<>>),
           Item_FnDef("", "_ready", <<>>, "None", <<>>, NoValue) }

InitEmit ==
    /\ FieldIdle
    /\ EnumIdle
    /\ CallIdle
    /\ CodecIdle
    /\ PkgIdle
    /\ emit_pc = "start"
    /\ node \in EmitNodes
    /\ entry_level \in 0..MaxEntryLevel
    /\ fail_at \in 0..MaxFailAt
    /\ cw_level = entry_level
    /\ emit_log = <<>>
    /\ emit_result = "none"

\* node.emit(cw, w)
Emit ==
    /\ emit_pc = "start"
    /\ \E st \in { Node_emit(node, [level |-> entry_level, writes |-> 0, log |-> <<>>,
                                     err |-> FALSE]) } :
           /\ cw_level' = st.level
           /\ emit_log' = st.log
           /\ emit_result' = IF st.err THEN "Err" ELSE "Ok"
    /\ emit_pc' = "done"
    /\ UNCHANGED <<node, entry_level, fail_at, field_vars, enum_vars, call_vars, codec_vars, pkg_vars>>

NextEmit == Emit

SpecEmit == InitEmit /\ [][NextEmit]_vars

(***************************************************************************)
(* Claims about emit.                                                      *)
(***************************************************************************)
Emitted == emit_pc = "done"

\* The writes of the text `pass`, in order.
PassWrites == SelectSeq(emit_log, LAMBDA e : e.text = "pass")

\* The indent levels of the `pass` lines a node calls for, in order: one per
\* empty block, one level deeper than the construct the block belongs to (the
\* construct itself for a function, if / else or for-in, the arm for a match,
\* which sits one level inside its match); none for a non-empty block.
RECURSIVE BodyPassLevels(_, _)
RECURSIVE ItemPassLevels(_, _)
RECURSIVE ArmsPassLevels(_, _)
BodyPassLevels(stmts, level) ==
    IF stmts = <<>> THEN << level + 1 >>
    ELSE ConcatAll([i \in DOMAIN stmts |-> ItemPassLevels(stmts[i], level + 1)])

ArmsPassLevels(arms, level) ==
    ConcatAll([i \in DOMAIN arms |-> BodyPassLevels(arms[i].body, level + 1)])

ItemPassLevels(n, level) ==
    IF n.item = "Block" THEN BodyPassLevels(n.body, level)
    ELSE IF n.item = "If"
    THEN BodyPassLevels(n.then_body, level)
         \o (IF n.has_else THEN BodyPassLevels(n.else_body, level) ELSE <<>>)
    ELSE IF n.item = "ForIn" THEN BodyPassLevels(n.body, level)
    ELSE IF n.item = "FnDef" THEN BodyPassLevels(n.body, level)
    ELSE IF n.item = "Match" THEN ArmsPassLevels(n.arms, level)
    ELSE <<>>

\* C16: a successful emit writes, for every empty block of the node (function
\* body, if / else body, for-in body, match-arm body), exactly one `pass` line,
\* one indent level deeper than the construct the block belongs to, and writes
\* no `pass` for a non-empty block.
C16_EmptyBlockEmitsPass ==
    (Emitted /\ emit_result = "Ok") =>
        /\ [i \in DOMAIN PassWrites |-> PassWrites[i].level] = ItemPassLevels(node, entry_level)
        /\ \A i \in DOMAIN PassWrites : PassWrites[i].op = "writeln"

\* A match whose two arms both have an empty body has been emitted: one `pass`
\* per arm, two levels inside the match.
C16_Witness ==
    /\ Emitted
    /\ emit_result = "Ok"
    /\ node.item = "Match"
    /\ Len(node.arms) = 2
    /\ node.arms[2].body = <<>>
    /\ Len(PassWrites) = 2
    /\ PassWrites[2].level = entry_level + 2

\* C17: a successful emit of any node leaves the indent level of the code
\* writer at its value on entry, and during an emit the level never drops
\* below that value.
C17_IndentRestored ==
    Emitted =>
        /\ emit_result = "Ok" => cw_level = entry_level
        /\ \A i \in DOMAIN emit_log : emit_log[i].level >= entry_level

\* A function whose body holds a match has been emitted from indent level 1:
\* the level went three deeper and is back at 1.
C17_Witness ==
    /\ Emitted
    /\ emit_result = "Ok"
    /\ node.item = "FnDef"
    /\ node.body # <<>>
    /\ node.body[1].item = "Match"
    /\ entry_level = 1
    /\ cw_level = 1
    /\ \E i \in DOMAIN emit_log : emit_log[i].level = entry_level + 3

\* C18: when a write to the sink fails during an emit, the emit returns an
\* error and no write is handed to the sink after the failed one.
C18_WriteFailureAborts ==
    Emitted =>
        \A i \in DOMAIN emit_log :
            ~emit_log[i].ok =>
                /\ emit_result = "Err"
                /\ \A j \in DOMAIN emit_log :
                       j > i => emit_log[j].op \in {"indent", "outdent"}

\* The `pass` of the then body of an if / else failed: the emit returned the
\* error and the else part was not rendered.
C18_Witness ==
    /\ Emitted
    /\ emit_result = "Err"
    /\ node.item = "If"
    /\ node.has_else
    /\ node.then_body = <<>>
    /\ emit_log # <<>>
    /\ ~emit_log[Len(emit_log)].ok
    /\ emit_log[Len(emit_log)].text = "pass"

(***************************************************************************)
(* Encode and decode generation fail together.                             *)
(***************************************************************************)

\* C23 as stated: for every encoding, gen_encode_stmts returns an error exactly
\* when gen_decode_stmts returns an error on the same encoding.
C23_EncodeFailsIffDecodeFails ==
    Decoded => (encode_stmts.ok <=> decode_stmts.ok)

(***************************************************************************)
(* The enum codec of a union with one field variant, for every leaf        *)
(* encoding: the resolver runs on the encoding of the variant's field and  *)
(* the enum's statements are generated and executed.                       *)
(***************************************************************************)
InitEnumField ==
    /\ pc = "start"
    /\ field_name = "_value"
    /\ encoding \in LeafEncodings
    /\ write_method = NotRun
    /\ read_method = NotRun
    /\ encode_stmts = NotRun
    /\ decode_stmts = NotRun
    /\ CallIdle
    /\ EmitIdle
    /\ CodecIdle
    /\ PkgIdle
    /\ enum_pc = "start"
    /\ variants = << Variant_Field("MOVE", 1, encoding) >>
    /\ direction \in {"encode", "decode"}
    /\ enum_decl = <<>>
    /\ enum_stmts = NotRun
    /\ todo = <<>>
    /\ discriminant = IF direction = "encode" THEN 1 ELSE NONE
    /\ value_assigned = FALSE
    /\ stream_error = "OK"
    /\ wire_trace = <<>>
    /\ returned = "none"

NextEnumField == Resolve \/ NextEnum

SpecEnumField == InitEnumField /\ [][NextEnumField]_vars

\* The read call of the arm of the variant in the generated decode statements.
FieldArmRead == enum_stmts.stmts[3].arms[2].body[1].assignment.value

\* C24: for every enum field variant, the read call generated by
\* gen_enum_decode_stmts has the method name and the extra arguments that
\* get_read_method returns for the encoding of the field, and
\* gen_enum_decode_stmts fails exactly when get_read_method fails.
C24_EnumReadCallIsReadMethod ==
    (Resolved /\ enum_pc # "start" /\ direction = "decode") =>
        /\ enum_stmts.ok <=> read_method.ok
        /\ enum_stmts.ok =>
               /\ FieldArmRead.receiver = ReaderIdent
               /\ FieldArmRead.name = read_method.method
               /\ FieldArmRead.args = read_method.extra_args

\* The payload of a zig-zag field variant was read: read_zigzag with the bit
\* count of the wire as its argument.
C24_Witness ==
    /\ Resolved
    /\ enum_pc = "done"
    /\ direction = "decode"
    /\ enum_stmts.ok
    /\ read_method.method = "read_zigzag"
    /\ read_method.extra_args = <<Expr_literal_int(16)>>
    /\ \E i \in DOMAIN wire_trace :
           wire_trace[i].name = "read_zigzag" /\ wire_trace[i].args = <<Expr_literal_int(16)>>

(***************************************************************************)
(* Synthetic identifiers of the generated decode statements.               *)
(***************************************************************************)
\* The bodies of the for loops of a statement list, at every nesting level.
RECURSIVE LoopBodies(_)
LoopBodies(stmts) ==
    UNION { IF stmts[i].item = "ForIn" THEN {stmts[i].body} \cup LoopBodies(stmts[i].body)
            ELSE IF stmts[i].item = "If" THEN LoopBodies(stmts[i].then_body)
            ELSE {} : i \in DOMAIN stmts }

\* The statement is X.append(...).
AppendsTo(stmt, X) ==
    /\ stmt.item = "Expr"
    /\ stmt.expr.kind = "FnCall"
    /\ stmt.expr.name = "append"
    /\ stmt.expr.receiver = Expr_ident(X)

\* The statement assigns the variable X (with or without a declaration).
Assigns(stmt, X) ==
    /\ stmt.item = "Assignment"
    /\ stmt.assignment.variable = Expr_ident(X)

\* The names the generator gives to variables.
VariableNames == FieldNames \cup {"_temp", "_item", "_key", "_value", "_i"}

\* C25 as stated: in the decode statements for an array whose elements are
\* themselves arrays, the variable that a loop body appends to is never
\* reassigned inside that same loop body.
C25_AppendTargetNotReassigned ==
    (/\ Decoded
     /\ decode_stmts.ok
     /\ encoding.native.type = "Array"
     /\ encoding.native.element.native.type = "Array") =>
        \A body \in LoopBodies(decode_stmts.stmts) :
            \A X \in VariableNames :
                (\E i \in DOMAIN body : AppendsTo(body[i], X)) =>
                    (\A j \in DOMAIN body : ~Assigns(body[j], X))

\* The synthetic identifiers of the generated decode statements.
SyntheticNames == {"_temp", "_item", "_key", "_value", "_i"}

\* The synthetic identifiers an expression mentions.
RECURSIVE ExprSynthetics(_)
ExprSynthetics(e) ==
    IF e.kind = "Identifier" THEN {e.name} \cap SyntheticNames
    ELSE IF e.kind = "FnCall"
    THEN ExprSynthetics(e.receiver) \cup UNION {ExprSynthetics(e.args[i]) : i \in DOMAIN e.args}
    ELSE IF e.kind = "IndexAccess" THEN ExprSynthetics(e.receiver) \cup ExprSynthetics(e.index)
    ELSE IF e.kind = "BinaryOp" THEN ExprSynthetics(e.left) \cup ExprSynthetics(e.right)
    ELSE {}

\* Every synthetic identifier that the statements from position i on assign or
\* read is in scope: introduced by an earlier `var` of the same block, or by a
\* `var` or a for-loop binding of an enclosing block (the set declared).
RECURSIVE Scoped(_, _, _)
Scoped(stmts, i, declared) ==
    IF i > Len(stmts) THEN TRUE
    ELSE LET stmt == stmts[i]
         IN  IF stmt.item = "Assignment"
             THEN LET a == stmt.assignment
                  IN  /\ ExprSynthetics(a.value) \subseteq declared
                      /\ IF a.declaration = "Var"
                         THEN Scoped(stmts, i + 1, declared \cup {a.variable.name})
                         ELSE /\ ExprSynthetics(a.variable) \subseteq declared
                              /\ Scoped(stmts, i + 1, declared)
             ELSE IF stmt.item = "Expr"
             THEN ExprSynthetics(stmt.expr) \subseteq declared /\ Scoped(stmts, i + 1, declared)
             ELSE IF stmt.item = "Return"
             THEN ExprSynthetics(stmt.value) \subseteq declared /\ Scoped(stmts, i + 1, declared)
             ELSE IF stmt.item = "If"
             THEN /\ ExprSynthetics(stmt.condition) \subseteq declared
                  /\ Scoped(stmt.then_body, 1, declared)
                  /\ Scoped(stmts, i + 1, declared)
             ELSE /\ ExprSynthetics(stmt.iterable) \subseteq declared
                  /\ Scoped(stmt.body, 1, declared \cup {stmt.variable})
                  /\ Scoped(stmts, i + 1, declared)

\* C26 as stated: every synthetic identifier that generated decode statements
\* assign or read (_temp, _item, _key, _value, _i) is introduced by a `var`
\* declaration or a for-loop binding in the same or an enclosing block before
\* its first assignment or use.
C26_SyntheticsDeclaredBeforeUse ==
    (Decoded /\ decode_stmts.ok) => Scoped(decode_stmts.stmts, 1, {})

(***************************************************************************)
(* Match-arm patterns and the DISCRIMINANTS declaration.                   *)
(***************************************************************************)
\* The arms of the generated match, if one was generated.
MatchArms ==
    LET matches == SelectSeq(enum_stmts.stmts, LAMBDA stmt : stmt.item = "Match")
    IN  IF matches = <<>> THEN <<>> ELSE matches[1].arms

\* The arms of the variants: the arms without the NONE arm of the decode match.
VariantArms == IF direction = "decode" THEN Tail(MatchArms) ELSE MatchArms

\* C27 as stated: for every variant list, each match-arm pattern generated by
\* gen_enum_encode_stmts and gen_enum_decode_stmts is either NONE or an
\* identifier that the generated discriminant declaration (gen_enum_decl)
\* declares for the same variant, including for variants whose name is a
\* GDScript reserved keyword.
C27_ArmPatternsAreDeclared ==
    (EnumGenerated /\ MatchArms # <<>>) =>
        /\ direction = "decode" => MatchArms[1].pattern = Expr_ident("NONE")
        /\ Len(VariantArms) = Len(variants)
        /\ \A i \in DOMAIN VariantArms :
               /\ VariantArms[i].pattern.kind = "Identifier"
               /\ enum_decl[i + 1] = <<VariantArms[i].pattern.name, variants[i].index>>

(***************************************************************************)
(* Decode of a discriminant that no variant declares.                      *)
(***************************************************************************)
\* The indices the variants declare.
DeclaredIndices == {variants[i].index : i \in DOMAIN variants}

\* C28: the match generated by gen_enum_decode_stmts has no catch-all arm: a
\* successfully read discriminant that equals neither NONE nor any declared
\* variant executes no arm, leaves the payload slot _value unassigned, sets no
\* error on the reader, and the decode ends by returning the reader's (OK)
\* error state.
C28_UnknownDiscriminantDecodesAsOk ==
    (EnumGenerated /\ direction = "decode") =>
        /\ \A i \in DOMAIN MatchArms :
               MatchArms[i].pattern.name \in {"NONE"} \cup {variants[j].name : j \in DOMAIN variants}
        /\ (/\ enum_pc = "done"
            /\ ~wire_trace[1].failed
            /\ discriminant \notin {NONE} \cup DeclaredIndices) =>
               /\ Len(wire_trace) = 1
               /\ ~value_assigned
               /\ stream_error = "OK"
               /\ returned = "OK"

\* The decode of a union with a unit and a field variant has ended after a
\* successful read of a discriminant that neither variant declares.
C28_Witness ==
    /\ enum_pc = "done"
    /\ direction = "decode"
    /\ Len(variants) = 2
    /\ variants[1].kind = "Unit"
    /\ variants[2].kind = "Field"
    /\ discriminant = 6
    /\ Len(wire_trace) = 1
    /\ ~wire_trace[1].failed
    /\ returned = "OK"

(***************************************************************************)
(* The string-based statement generator (codec.rs).  The text of a         *)
(* statement is the sequence of the pieces that format! puts together,     *)
(* with every parenthesis a piece of its own.                              *)
(***************************************************************************)
\* Stmt::Expr
Stmt_Expr(text) == [stmt |-> "Expr", text |-> text]

\* Stmt::Assign
Stmt_Assign(target, value) == [stmt |-> "Assign", target |-> target, value |-> value]

\* Stmt::ForIn
Stmt_ForIn(var_name, iterable, body) ==
    [stmt |-> "ForIn", var_name |-> var_name, iterable |-> iterable, body |-> body]

\* PrimitiveCodec; with_count: format_args is the closure that formats ", {count}".
PrimitiveCodec(write, read, with_count) ==
    [some |-> TRUE, write_method |-> write, read_method |-> read, with_count |-> with_count]

NoCodec == [some |-> FALSE]

\* The inner match of resolve_primitive_codec on (bits, signed, count).
fixed_int_codec(bits, signed, count) ==
    IF bits = 8 /\ ~signed /\ count = 8 THEN PrimitiveCodec("write_u8", "read_u8", FALSE)
    ELSE IF bits = 8 /\ signed /\ count = 8 THEN PrimitiveCodec("write_i8", "read_i8", FALSE)
    ELSE IF bits = 16 /\ ~signed /\ count = 16 THEN PrimitiveCodec("write_u16", "read_u16", FALSE)
    ELSE IF bits = 16 /\ signed /\ count = 16 THEN PrimitiveCodec("write_i16", "read_i16", FALSE)
    ELSE IF bits = 32 /\ ~signed /\ count = 32 THEN PrimitiveCodec("write_u32", "read_u32", FALSE)
    ELSE IF bits = 32 /\ signed /\ count = 32 THEN PrimitiveCodec("write_i32", "read_i32", FALSE)
    ELSE IF bits = 64 /\ count = 64 THEN PrimitiveCodec("write_i64", "read_i64", FALSE)
    ELSE PrimitiveCodec("write_bits", "read_bits", TRUE)

resolve_primitive_codec(enc) ==
    LET wire == enc.wire
        native == enc.native
    IN  IF wire.format = "Bits" /\ wire.count = 1 /\ native.type = "Bool"
        THEN PrimitiveCodec("write_bool", "read_bool", FALSE)
        ELSE IF wire.format = "LengthPrefixed" /\ native.type = "String"
        THEN PrimitiveCodec("write_string", "read_string", FALSE)
        ELSE IF wire.format = "LengthPrefixed" /\ native.type = "Bytes" THEN NoCodec
        ELSE IF wire.format = "Bits" /\ native.type = "Int"
        THEN IF has_zigzag(enc) THEN PrimitiveCodec("write_zigzag", "read_zigzag", TRUE)
             ELSE fixed_int_codec(native.bits, native.signed, wire.count)
        ELSE IF wire.format = "LengthPrefixed" /\ native.type = "Int" /\ ~native.signed
        THEN PrimitiveCodec("write_varint_unsigned", "read_varint_unsigned", FALSE)
        ELSE IF wire.format = "LengthPrefixed" /\ native.type = "Int" /\ native.signed
        THEN PrimitiveCodec("write_varint_signed", "read_varint_signed", FALSE)
        ELSE IF wire.format = "Bits" /\ wire.count = 32 /\ native.type = "Float" /\ native.bits = 32
        THEN PrimitiveCodec("write_f32", "read_f32", FALSE)
        ELSE IF wire.format = "Bits" /\ wire.count = 64 /\ native.type = "Float" /\ native.bits = 64
        THEN PrimitiveCodec("write_f64", "read_f64", FALSE)
        ELSE NoCodec

\* format_args: ", {count}" under a Bits wire, nothing otherwise.
format_args(codec, enc) ==
    IF codec.with_count /\ enc.wire.format = "Bits" THEN << ", ", ToString(enc.wire.count) >>
    ELSE <<>>

\* The enum is generated as its underlying 32-bit signed integer.
int_encoding(enc) == Encoding(enc.wire, NativeInt(32, TRUE), enc.transforms)

\* "_writer.write_varint_unsigned({}.size())"
codec_write_size(field) ==
    Stmt_Expr(<< "_writer.write_varint_unsigned", "(" >> \o field \o << ".size", "(", ")", ")" >>)

\* "_writer.{}({}{}))" with the write method, the field and the extra arguments.
codec_write_primitive(codec, field, enc) ==
    Stmt_Expr(<< "_writer.", codec.write_method, "(" >> \o field \o format_args(codec, enc)
              \o << ")", ")" >>)

\* gen_encode_stmts of codec.rs; field is the text naming the value.
RECURSIVE codec_gen_encode_stmts(_, _)
codec_gen_encode_stmts(field, enc) ==
    LET native == enc.native
    IN  IF native.type = "Message"
        THEN OkStmts(<< Stmt_Expr(field \o << "._encode", "(", "_writer", ")" >>) >>)
        ELSE IF native.type = "Array"
        THEN LET inner_stmts == codec_gen_encode_stmts(<<"_item">>, native.element)
             IN  IF ~inner_stmts.ok THEN inner_stmts
                 ELSE OkStmts(<< codec_write_size(field),
                                 Stmt_ForIn("_item", field, inner_stmts.stmts) >>)
        ELSE IF native.type = "Map"
        THEN LET key_stmts == codec_gen_encode_stmts(<<"_key">>, native.key)
                 value_stmts == codec_gen_encode_stmts(field \o << "[", "_key", "]" >>,
                                                       native.value)
             IN  IF ~key_stmts.ok THEN key_stmts
                 ELSE IF ~value_stmts.ok THEN value_stmts
                 ELSE OkStmts(<< codec_write_size(field),
                                 Stmt_ForIn("_key", field, key_stmts.stmts \o value_stmts.stmts) >>)
        ELSE IF native.type = "Enum" THEN codec_gen_encode_stmts(field, int_encoding(enc))
        ELSE IF native.type = "Bytes" /\ enc.wire.format = "LengthPrefixed"
        THEN OkStmts(<< codec_write_size(field),
                        Stmt_Expr(<< "_writer.write_bytes", "(" >> \o field \o << ")" >>) >>)
        ELSE LET codec == resolve_primitive_codec(enc)
             IN  IF codec.some THEN OkStmts(<< codec_write_primitive(codec, field, enc) >>)
                 ELSE Unsupported(enc)

\* type_name of types.rs.
RECURSIVE type_name(_)
type_name(native) ==
    IF native.type = "Bool" THEN <<"bool">>
    ELSE IF native.type = "Int" THEN <<"int">>
    ELSE IF native.type = "Float" THEN <<"float">>
    ELSE IF native.type = "String" THEN <<"String">>
    ELSE IF native.type = "Bytes" THEN <<"PackedByteArray">>
    ELSE IF native.type = "Array" THEN << "Array", "[" >> \o type_name(native.element.native) \o << "]" >>
    ELSE IF native.type = "Map" THEN <<"Dictionary">>
    ELSE IF native.type = "Message" THEN << join(native.descriptor.path, "_") >>
    ELSE <<"int">>

\* trim_start_matches(", ") on the extra arguments.
trim_start_matches(args) ==
    IF args # <<>> /\ Head(args) = ", " THEN Tail(args) ELSE args

\* gen_decode_expr of codec.rs.
RECURSIVE gen_decode_expr(_)
gen_decode_expr(enc) ==
    IF enc.native.type = "Bytes" /\ enc.wire.format = "LengthPrefixed"
    THEN [ok |-> TRUE,
          expr |-> << "_reader.read_bytes", "(", "_reader.read_varint_unsigned", "(", ")", ")" >>]
    ELSE IF enc.native.type = "Enum" THEN gen_decode_expr(int_encoding(enc))
    ELSE LET codec == resolve_primitive_codec(enc)
         IN  IF codec.some
             THEN [ok |-> TRUE,
                   expr |-> << "_reader.", codec.read_method, "(" >>
                            \o trim_start_matches(format_args(codec, enc)) \o << ")" >>]
             ELSE Unsupported(enc)

\* "range(_reader.read_varint_unsigned())"
codec_range == << "range", "(", "_reader.read_varint_unsigned", "(", ")", ")" >>

\* "{}.new()"
codec_new(native) == type_name(native) \o << ".new", "(", ")" >>

\* gen_decode_stmts of codec.rs.
RECURSIVE codec_gen_decode_stmts(_, _)
codec_gen_decode_stmts(field, enc) ==
    LET native == enc.native
    IN  IF native.type = "Message"
        THEN OkStmts(<< Stmt_Assign(field, codec_new(native)),
                        Stmt_Expr(field \o << "._decode", "(", "_reader", ")" >>) >>)
        ELSE IF native.type = "Array"
        THEN IF native.element.native.type = "Message"
             THEN OkStmts(<< Stmt_Assign(field, << "[", "]" >>),
                             Stmt_ForIn("_i", codec_range,
                                 << Stmt_Assign(<<"_item">>, codec_new(native.element.native)),
                                    Stmt_Expr(<< "_item._decode", "(", "_reader", ")" >>),
                                    Stmt_Expr(field \o << ".append", "(", "_item", ")" >>) >>) >>)
             ELSE LET item_expr == gen_decode_expr(native.element)
                  IN  IF ~item_expr.ok THEN item_expr
                      ELSE OkStmts(<< Stmt_Assign(field, << "[", "]" >>),
                                      Stmt_ForIn("_i", codec_range,
                                          << Stmt_Expr(field \o << ".append", "(" >>
                                                       \o item_expr.expr \o << ")" >>) >>) >>)
        ELSE IF native.type = "Map"
        THEN LET key_expr == gen_decode_expr(native.key)
                 slot == field \o << "[", "_key", "]" >>
             IN  IF ~key_expr.ok THEN key_expr
                 ELSE IF native.value.native.type = "Message"
                 THEN OkStmts(<< Stmt_Assign(field, << "{", "}" >>),
                                 Stmt_ForIn("_i", codec_range,
                                     << Stmt_Assign(<<"_key">>, key_expr.expr),
                                        Stmt_Assign(<<"_val">>, codec_new(native.value.native)),
                                        Stmt_Expr(<< "_val._decode", "(", "_reader", ")" >>),
                                        Stmt_Assign(slot, <<"_val">>) >>) >>)
                 ELSE LET val_expr == gen_decode_expr(native.value)
                      IN  IF ~val_expr.ok THEN val_expr
                          ELSE OkStmts(<< Stmt_Assign(field, << "{", "}" >>),
                                          Stmt_ForIn("_i", codec_range,
                                              << Stmt_Assign(<<"_key">>, key_expr.expr),
                                                 Stmt_Assign(slot, val_expr.expr) >>) >>)
        ELSE IF native.type = "Enum" THEN codec_gen_decode_stmts(field, int_encoding(enc))
        ELSE LET decode_expr == gen_decode_expr(enc)
             IN  IF ~decode_expr.ok THEN decode_expr
                 ELSE OkStmts(<< Stmt_Assign(field, decode_expr.expr) >>)

(***************************************************************************)
(* The string-based generator as a state machine: the encode and then the  *)
(* decode statements of one field are generated.                           *)
(***************************************************************************)
InitCodec ==
    /\ pc = "off"
    /\ field_name \in FieldNames
    /\ encoding \in Encodings
    /\ write_method = NotRun
    /\ read_method = NotRun
    /\ encode_stmts = NotRun
    /\ decode_stmts = NotRun
    /\ EnumIdle
    /\ CallIdle
    /\ EmitIdle
    /\ PkgIdle
    /\ codec_pc = "start"
    /\ codec_encode_stmts = NotRun
    /\ codec_decode_stmts = NotRun

CodecGenEncode ==
    /\ codec_pc = "start"
    /\ codec_encode_stmts' = codec_gen_encode_stmts(<<field_name>>, encoding)
    /\ codec_pc' = "encoded"
    /\ UNCHANGED <<codec_decode_stmts, field_vars, enum_vars, call_vars, emit_vars, pkg_vars>>

CodecGenDecode ==
    /\ codec_pc = "encoded"
    /\ codec_decode_stmts' = codec_gen_decode_stmts(<<field_name>>, encoding)
    /\ codec_pc' = "decoded"
    /\ UNCHANGED <<codec_encode_stmts, field_vars, enum_vars, call_vars, emit_vars, pkg_vars>>

NextCodec == CodecGenEncode \/ CodecGenDecode

SpecCodec == InitCodec /\ [][NextCodec]_vars

\* The number of opening minus the number of closing parentheses of a text.
RECURSIVE ParenDepth(_)
ParenDepth(text) ==
    IF text = <<>> THEN 0
    ELSE LET last == text[Len(text)]
             before == ParenDepth(SubSeq(text, 1, Len(text) - 1))
         IN  IF last = "(" THEN before + 1 ELSE IF last = ")" THEN before - 1 ELSE before

\* The parentheses of a text are balanced: as many `)` as `(`, and no prefix
\* with more `)` than `(`.
Balanced(text) ==
    /\ ParenDepth(text) = 0
    /\ \A n \in 0..Len(text) : ParenDepth(SubSeq(text, 1, n)) >= 0

\* C29 as stated: every expression statement that the string-based
\* gen_encode_stmts emits for a primitive field is a well-formed call of the
\* form _writer.<write op>(<field><extra args>) with balanced parentheses.
C29_PrimitiveWriteIsWellFormed ==
    (codec_pc # "start" /\ IsPrimitive(encoding) /\ codec_encode_stmts.ok) =>
        \A i \in DOMAIN codec_encode_stmts.stmts :
            LET stmt == codec_encode_stmts.stmts[i]
            IN  stmt.stmt = "Expr" =>
                    /\ SubSeq(stmt.text, 1, 4) =
                           << "_writer.", resolve_primitive_codec(encoding).write_method, "(",
                              field_name >>
                    /\ stmt.text[Len(stmt.text)] = ")"
                    /\ Balanced(stmt.text)

(***************************************************************************)
(* GDScript::generate: schemas, type collection, dependencies and paths.   *)
(* A path is the sequence of its segments; a file's content is kept as the *)
(* record of what its generator was given and computed.                    *)
(***************************************************************************)
Descriptor(package, path) == [package |-> package, path |-> path]

Field(name, enc) == [name |-> name, encoding |-> enc]

Message(descriptor, fields, messages, enums) ==
    [descriptor |-> descriptor, fields |-> fields, messages |-> messages, enums |-> enums]

Enum(descriptor, enum_variants) == [descriptor |-> descriptor, variants |-> enum_variants]

Package(name, messages, enums) == [name |-> name, messages |-> messages, enums |-> enums]

\* Message::name / Enum::name: the last element of the descriptor's path.
name_of(type) ==
    IF type.descriptor.path = <<>> THEN "" ELSE type.descriptor.path[Len(type.descriptor.path)]

\* let Some(name) = ....name() else { continue }: the types that have a name.
named(types) == SelectSeq(types, LAMBDA t : t.descriptor.path # <<>>)

TypeEntry(kind, type, file_stem, nested) ==
    [kind |-> kind, type |-> type, file_stem |-> file_stem, nested |-> nested]

\* The nested stems of collect_message: one per nested enum, then one per
\* nested message.
nested_stems(file_stem, types) ==
    [i \in DOMAIN types |-> file_stem \o "_" \o name_of(types[i])]

\* collect_message: the nested enums, the nested messages (recursively), then
\* the message itself.
RECURSIVE collect_message(_, _)
RECURSIVE collect_messages(_, _)
collect_message(msg, ancestors) ==
    LET name == name_of(msg)
        file_stem == IF ancestors = <<>> THEN name ELSE join(ancestors, "_") \o "_" \o name
        nested_enums == [i \in DOMAIN named(msg.enums) |->
                            TypeEntry("Enum", named(msg.enums)[i],
                                      file_stem \o "_" \o name_of(named(msg.enums)[i]), <<>>)]
    IN  IF msg.descriptor.path = <<>> THEN <<>>
        ELSE nested_enums
             \o collect_messages(named(msg.messages), Append(ancestors, name))
             \o << TypeEntry("Message", msg, file_stem,
                             nested_stems(file_stem, named(msg.enums))
                             \o nested_stems(file_stem, named(msg.messages))) >>

collect_messages(msgs, ancestors) ==
    IF msgs = <<>> THEN <<>>
    ELSE collect_message(Head(msgs), ancestors) \o collect_messages(Tail(msgs), ancestors)

\* collect_package_types: the top-level enums, then the messages.
collect_package_types(pkg) ==
    [i \in DOMAIN named(pkg.enums) |->
        TypeEntry("Enum", named(pkg.enums)[i], name_of(named(pkg.enums)[i]), <<>>)]
    \o collect_messages(pkg.messages, <<>>)

\* str::to_lowercase on the file stems of the schemas checked.
to_lowercase(s) ==
    IF s = "Player" THEN "player"
    ELSE IF s = "Inventory" THEN "inventory"
    ELSE IF s = "Status" THEN "status"
    ELSE IF s = "Broken" THEN "broken"
    ELSE IF s = "Player_Stats" THEN "player_stats"
    ELSE s

\* pkg_to_path: the directory of a package, one segment per name element.
pkg_to_path(pkg) == pkg

\* "../".repeat(n)
RECURSIVE repeat_up(_)
repeat_up(n) == IF n = 0 THEN <<>> ELSE <<"..">> \o repeat_up(n - 1)

\* resolve_preload_path: "./{stem}.gd" within the package, otherwise as many
\* "../" as the current package is deep, the target directory and the file.
resolve_preload_path(target_pkg, target_path, current_pkg) ==
    LET target_stem == join(target_path, "_")
    IN  IF target_pkg = current_pkg THEN << ".", target_stem \o ".gd" >>
        ELSE repeat_up(Len(current_pkg)) \o pkg_to_path(target_pkg) \o << target_stem \o ".gd" >>

\* file_stem.starts_with(&format!("{}_", current_file_stem)) on the paths the
\* stems are the joins of: the path continues the current path by at least
\* one element (no element of the schemas checked holds a "_").
starts_with(path, prefix_path) ==
    Len(path) > Len(prefix_path) /\ SubSeq(path, 1, Len(prefix_path)) = prefix_path

Dependency(const_name, file_stem, path) ==
    [const_name |-> const_name, file_stem |-> file_stem, path |-> path]

\* collect_native_dependencies: seen_deps is the pair of the stems seen and the
\* dependencies collected so far.
RECURSIVE collect_native_dependencies(_, _, _, _)
collect_native_dependencies(native, current_pkg, current_path, seen_deps) ==
    IF native.type \in {"Message", "Enum"}
    THEN LET descriptor == native.descriptor
             file_stem == join(descriptor.path, "_")
         IN  IF starts_with(descriptor.path, current_path) THEN seen_deps
             ELSE IF file_stem \in seen_deps.seen THEN seen_deps
             ELSE [seen |-> seen_deps.seen \cup {file_stem},
                   deps |-> Append(seen_deps.deps,
                                Dependency(file_stem, file_stem,
                                    resolve_preload_path(descriptor.package, descriptor.path,
                                                         current_pkg)))]
    ELSE IF native.type = "Array"
    THEN collect_native_dependencies(native.element.native, current_pkg, current_path, seen_deps)
    ELSE IF native.type = "Map"
    THEN collect_native_dependencies(native.value.native, current_pkg, current_path,
             collect_native_dependencies(native.key.native, current_pkg, current_path, seen_deps))
    ELSE seen_deps

\* collect_field_dependencies: the fields in order, from no stem seen.
RECURSIVE collect_fields(_, _, _, _)
collect_fields(fields, current_pkg, current_path, seen_deps) ==
    IF fields = <<>> THEN seen_deps
    ELSE collect_fields(Tail(fields), current_pkg, current_path,
             collect_native_dependencies(Head(fields).encoding.native, current_pkg,
                                         current_path, seen_deps))

collect_field_dependencies(fields, current_pkg, current_path) ==
    collect_fields(fields, current_pkg, current_path, [seen |-> {}, deps |-> <<>>]).deps

\* The first failure of gen_encode_stmts, then of gen_decode_stmts, over the
\* fields of a message (message.rs, PRIVATE METHODS), or the success.
RECURSIVE fields_encode(_)
fields_encode(fields) ==
    IF fields = <<>> THEN OkStmts(<<>>)
    ELSE LET first == codec_gen_encode_stmts(<<escape_keyword(Head(fields).name)>>,
                                             Head(fields).encoding)
         IN  IF ~first.ok THEN first ELSE fields_encode(Tail(fields))

RECURSIVE fields_decode(_)
fields_decode(fields) ==
    IF fields = <<>> THEN OkStmts(<<>>)
    ELSE LET first == codec_gen_decode_stmts(<<escape_keyword(Head(fields).name)>>,
                                             Head(fields).encoding)
         IN  IF ~first.ok THEN first ELSE fields_decode(Tail(fields))

\* The error of script.emit(cw, &mut w)? when the writer fails.
EmitFailed == [ok |-> FALSE, error |-> "emit failed"]

OkContent(content) == [ok |-> TRUE, content |-> content]

\* generate_message: the field dependencies, the preloads of the nested types,
\* the codec statements of the fields, then the emit.
generate_message(msg, entry, pkg, emit_fails) ==
    LET deps == collect_field_dependencies(msg.fields, pkg, msg.descriptor.path)
        nested_items == [i \in DOMAIN entry.nested |->
                            << ".", to_lowercase(entry.nested[i]) \o ".gd" >>]
        encode_body == fields_encode(msg.fields)
        decode_body == fields_decode(msg.fields)
    IN  IF ~encode_body.ok THEN encode_body
        ELSE IF ~decode_body.ok THEN decode_body
        ELSE IF emit_fails THEN EmitFailed
        ELSE OkContent([kind |-> "message", deps |-> deps, nested |-> nested_items])

\* generate_enum: the declaration, the private methods, then the emit.
generate_enum(enm, entry, pkg, emit_fails) ==
    LET encode_body == gen_enum_encode_stmts(enm.variants)
        decode_body == gen_enum_decode_stmts(enm.variants)
    IN  IF ~encode_body.ok THEN encode_body
        ELSE IF ~decode_body.ok THEN decode_body
        ELSE IF emit_fails THEN EmitFailed
        ELSE OkContent([kind |-> "enum",
                        decl |-> IF enm.variants # <<>> THEN gen_enum_decl(enm.variants)
                                 ELSE <<>>])

\* generate_namespace: the preloads of the subpackages and of the types.
generate_namespace(pkg_name, class_name, entries, subpackages, emit_fails) ==
    IF emit_fails THEN EmitFailed
    ELSE OkContent([kind |-> "namespace",
                    name |-> IF pkg_name = <<>> THEN <<"Root">> ELSE pkg_name,
                    class_name |-> class_name,
                    dependencies |-> [i \in DOMAIN subpackages |->
                                         << ".", subpackages[i], "mod.gd" >>],
                    types |-> [i \in DOMAIN entries |->
                                  << ".", to_lowercase(entries[i].file_stem) \o ".gd" >>]])

\* The order of String on the package name elements of the schemas checked.
SegmentRank(s) ==
    IF s = "game" THEN 1 ELSE IF s = "io" THEN 2 ELSE IF s = "net" THEN 3
    ELSE IF s = "player" THEN 4 ELSE 5

\* The order of Vec<String>: element by element, a proper prefix first.
RECURSIVE path_less(_, _)
path_less(p, q) ==
    IF p = <<>> THEN q # <<>>
    ELSE IF q = <<>> THEN FALSE
    ELSE IF Head(p) = Head(q) THEN path_less(Tail(p), Tail(q))
    ELSE SegmentRank(Head(p)) < SegmentRank(Head(q))

\* The elements of a BTreeSet of paths in iteration order.
RECURSIVE btree_iter(_)
btree_iter(paths) ==
    IF paths = {} THEN <<>>
    ELSE LET first == CHOOSE p \in paths : \A q \in paths \ {p} : path_less(p, q)
         IN  <<first>> \o btree_iter(paths \ {first})

\* Vec<String>::sort
sort(names) == SortSeq(names, LAMBDA a, b : SegmentRank(a) < SegmentRank(b))

\* Step 2: every non-empty prefix of every package name.
package_paths(packages) ==
    UNION { { SubSeq(packages[k].name, 1, i) : i \in 1..Len(packages[k].name) }
            : k \in DOMAIN packages }

\* Variant: every descendant counts as a subpackage.
subpackages_of_descendants(paths, pkg_segments) ==
    sort([i \in DOMAIN SelectSeq(btree_iter(paths),
                   LAMBDA p : Len(p) > Len(pkg_segments)
                              /\ SubSeq(p, 1, Len(pkg_segments)) = pkg_segments) |->
          LET hit == SelectSeq(btree_iter(paths),
                         LAMBDA p : Len(p) > Len(pkg_segments)
                                    /\ SubSeq(p, 1, Len(pkg_segments)) = pkg_segments)[i]
          IN  hit[Len(hit)]])

\* Step 3: the last elements of the paths one longer than pkg_segments that
\* start with it, sorted.
subpackages_of(paths, pkg_segments) ==
    LET children == SelectSeq(btree_iter(paths),
                        LAMBDA p : Len(p) = Len(pkg_segments) + 1
                                   /\ SubSeq(p, 1, Len(pkg_segments)) = pkg_segments)
    IN  sort([i \in DOMAIN children |-> children[i][Len(children[i])]])

\* Step 3: the types of the first package of that exact name, none otherwise.
entries_of(packages, pkg_segments) ==
    LET hits == {k \in DOMAIN packages : packages[k].name = pkg_segments}
    IN  IF hits = {} THEN <<>>
        ELSE collect_package_types(packages[CHOOSE k \in hits : \A j \in hits : k <= j])

\* GeneratorOutput::add: the file of a path is the last content added for it.
output_add(out, path, content) ==
    {f \in out : f.path # path} \cup {[path |-> path, content |-> content]}

\* Variant: a failure returns the files added so far.
generation_error_partial(out, failure) == [ok |-> TRUE, files |-> out]

\* .map_err(|e| GeneratorError::Generation(e.to_string()))?
generation_error(out, failure) == [ok |-> FALSE, error |-> failure.error]

\* Step 1: the (package, entry) pairs of the two nested loops, in order.
RECURSIVE type_jobs(_)
type_jobs(packages) ==
    IF packages = <<>> THEN <<>>
    ELSE LET pkg == Head(packages)
             entries == collect_package_types(pkg)
         IN  [i \in DOMAIN entries |-> [pkg |-> pkg.name, entry |-> entries[i]]]
             \o type_jobs(Tail(packages))

\* The path of a type file: "{pkg_path}/{file_stem.to_lowercase()}.gd".
type_file_path(pkg, entry) == pkg_to_path(pkg) \o << to_lowercase(entry.file_stem) \o ".gd" >>

\* Step 4: the elements of the paths of length one, sorted.
root_subpackages_of(paths) ==
    LET roots == SelectSeq(btree_iter(paths), LAMBDA p : Len(p) = 1)
    IN  sort([i \in DOMAIN roots |-> roots[i][1]])

(***************************************************************************)
(* The schemas checked.                                                    *)
(***************************************************************************)
MaxPackages == 2

PackageNames == { <<"game">>, <<"game", "player">>, <<"net", "io", "udp">> }

\* NativeType::Message / NativeType::Enum of a descriptor with its package.
MessageRef(package, path) ==
    Encoding(LengthPrefixed(64), [type |-> "Message", descriptor |-> Descriptor(package, path)],
             <<>>)

EnumRef(package, path) ==
    Encoding(Bits(8), [type |-> "Enum", descriptor |-> Descriptor(package, path)], <<>>)

StatusEnum(name, enc) ==
    Enum(Descriptor(name, <<"Status">>),
         << Variant_Unit("IDLE", 0), Variant_Field("MOVE", 1, enc) >>)

InventoryMessage(name) ==
    Message(Descriptor(name, <<"Inventory">>),
            << Field("score", Encoding(Bits(32), NativeInt(32, TRUE), <<>>)) >>, <<>>, <<>>)

\* The packages of one name: without types, with types that refer to each
\* other, with a reference into package game, with a field or a variant that
\* no codec supports, and with a nested message.
PackagesNamed(name) ==
    { Package(name, <<>>, <<>>),
      Package(name,
              << Message(Descriptor(name, <<"Player">>),
                         << Field("inventory", MessageRef(name, <<"Inventory">>)),
                            Field("status", ArrayOf(EnumRef(name, <<"Status">>))) >>,
                         <<>>, <<>>),
                 InventoryMessage(name) >>,
              << StatusEnum(name, Encoding(Bits(32), NativeInt(32, TRUE), <<>>)) >>),
      Package(name,
              << Message(Descriptor(name, <<"Player">>),
                         << Field("inventory", MessageRef(<<"game">>, <<"Inventory">>)) >>,
                         <<>>, <<>>) >>,
              <<>>),
      Package(name,
              << InventoryMessage(name),
                 Message(Descriptor(name, <<"Broken">>),
                         << Field("items", Encoding(Bits(8), NativeString, <<>>)) >>,
                         <<>>, <<>>) >>,
              <<>>),
      Package(name,
              << InventoryMessage(name) >>,
              << StatusEnum(name, Encoding(Bits(8), NativeString, <<>>)) >>),
      Package(name,
              << Message(Descriptor(name, <<"Player">>),
                         << Field("stats", MessageRef(name, <<"Player", "Stats">>)) >>,
                         << Message(Descriptor(name, <<"Player", "Stats">>),
                                    << Field("score", Encoding(Bits(8), NativeInt(8, FALSE), <<>>)) >>,
                                    <<>>, <<>>) >>,
                         <<>>) >>,
              <<>>) }

PackagePool == UNION { PackagesNamed(name) : name \in PackageNames }

\* The schemas of at most MaxPackages packages of distinct names.
Schemas ==
    UNION { { s \in [1..n -> PackagePool] :
                \A i, j \in 1..n : i # j => s[i].name # s[j].name }
            : n \in 0..MaxPackages }

\* The paths of the files a run may write.
FilePaths(packages) ==
    { type_file_path(type_jobs(packages)[i].pkg, type_jobs(packages)[i].entry)
        : i \in DOMAIN type_jobs(packages) }
    \cup { p \o <<"mod.gd">> : p \in package_paths(packages) }
    \cup { <<"mod.gd">> }

(***************************************************************************)
(* GDScript::generate as a machine: one step per file.                     *)
(***************************************************************************)
InitPkg ==
    /\ FieldIdle
    /\ EnumIdle
    /\ CallIdle
    /\ EmitIdle
    /\ CodecIdle
    /\ pkg_pc = "types"
    /\ schema \in Schemas
    /\ sink_fails \in {{}} \cup { {p} : p \in FilePaths(schema) }
    /\ output = {}
    /\ all_package_paths = {}
    /\ pending = type_jobs(schema)
    /\ generated = NotRun

\* Step 1, one entry: generate the file and add it, or return the error.
GenTypeFile ==
    /\ pkg_pc = "types"
    /\ pending # <<>>
    /\ LET job == Head(pending)
           path == type_file_path(job.pkg, job.entry)
       IN  \E content \in
               { IF job.entry.kind = "Message"
                 THEN generate_message(job.entry.type, job.entry, job.pkg, path \in sink_fails)
                 ELSE generate_enum(job.entry.type, job.entry, job.pkg, path \in sink_fails) } :
               IF content.ok
               THEN /\ output' = output_add(output, path, content.content)
                    /\ pending' = Tail(pending)
                    /\ UNCHANGED <<pkg_pc, generated>>
               ELSE /\ generated' = generation_error(output, content)
                    /\ pkg_pc' = "failed"
                    /\ UNCHANGED <<output, pending>>
    /\ UNCHANGED <<schema, sink_fails, all_package_paths>>
    /\ UNCHANGED <<field_vars, enum_vars, call_vars, emit_vars, codec_vars>>

\* Step 2: collect the package paths.
CollectPaths ==
    /\ pkg_pc = "types"
    /\ pending = <<>>
    /\ all_package_paths' = package_paths(schema)
    /\ pending' = btree_iter(package_paths(schema))
    /\ pkg_pc' = "namespaces"
    /\ UNCHANGED <<schema, sink_fails, output, generated>>
    /\ UNCHANGED <<field_vars, enum_vars, call_vars, emit_vars, codec_vars>>

\* Step 3, one package path: generate its mod.gd and add it, or return the error.
GenNamespace ==
    /\ pkg_pc = "namespaces"
    /\ pending # <<>>
    /\ LET pkg_segments == Head(pending)
           path == pkg_segments \o <<"mod.gd">>
       IN  \E content \in
               { generate_namespace(pkg_segments, "", entries_of(schema, pkg_segments),
                                    subpackages_of(all_package_paths, pkg_segments),
                                    path \in sink_fails) } :
               IF content.ok
               THEN /\ output' = output_add(output, path, content.content)
                    /\ pending' = Tail(pending)
                    /\ UNCHANGED <<pkg_pc, generated>>
               ELSE /\ generated' = generation_error(output, content)
                    /\ pkg_pc' = "failed"
                    /\ UNCHANGED <<output, pending>>
    /\ UNCHANGED <<schema, sink_fails, all_package_paths>>
    /\ UNCHANGED <<field_vars, enum_vars, call_vars, emit_vars, codec_vars>>

\* Step 4 and the return: the root mod.gd if there is a package path, then Ok(output).
GenRoot ==
    /\ pkg_pc = "namespaces"
    /\ pending = <<>>
    /\ \E content \in
           { generate_namespace(<<>>, "BAProto", <<>>, root_subpackages_of(all_package_paths),
                                <<"mod.gd">> \in sink_fails) } :
           IF all_package_paths = {}
           THEN /\ generated' = [ok |-> TRUE, files |-> output]
                /\ pkg_pc' = "done"
                /\ UNCHANGED output
           ELSE IF content.ok
           THEN /\ output' = output_add(output, <<"mod.gd">>, content.content)
                /\ generated' = [ok |-> TRUE, files |-> output']
                /\ pkg_pc' = "done"
           ELSE /\ generated' = generation_error(output, content)
                /\ pkg_pc' = "failed"
                /\ UNCHANGED output
    /\ UNCHANGED <<schema, sink_fails, all_package_paths, pending>>
    /\ UNCHANGED <<field_vars, enum_vars, call_vars, emit_vars, codec_vars>>

NextPkg == GenTypeFile \/ CollectPaths \/ GenNamespace \/ GenRoot

SpecPkg == InitPkg /\ [][NextPkg]_vars

(***************************************************************************)
(* Claims about GDScript::generate.                                        *)
(***************************************************************************)
\* The path named by a relative path from a directory: "." stays, ".." leaves
\* the last directory.
RECURSIVE ResolveFrom(_, _)
ResolveFrom(dir, rel) ==
    IF rel = <<>> THEN dir
    ELSE IF Head(rel) = "." THEN ResolveFrom(dir, Tail(rel))
    ELSE IF Head(rel) = ".." THEN ResolveFrom(SubSeq(dir, 1, Len(dir) - 1), Tail(rel))
    ELSE ResolveFrom(Append(dir, Head(rel)), Tail(rel))

\* The descriptors of the messages and enums a native type refers to.
RECURSIVE ReferencedDescriptors(_)
ReferencedDescriptors(native) ==
    IF native.type \in {"Message", "Enum"} THEN {native.descriptor}
    ELSE IF native.type = "Array" THEN ReferencedDescriptors(native.element.native)
    ELSE IF native.type = "Map"
    THEN ReferencedDescriptors(native.key.native) \cup ReferencedDescriptors(native.value.native)
    ELSE {}

TypeJobs == { type_jobs(schema)[i] : i \in DOMAIN type_jobs(schema) }

\* The jobs of the types the fields of a message job refer to and the schema declares.
DeclaredTargets(job) ==
    { target \in TypeJobs :
        \E i \in DOMAIN job.entry.type.fields :
            /\ target.entry.type.descriptor
                 \in ReferencedDescriptors(job.entry.type.fields[i].encoding.native)
            /\ target.pkg = target.entry.type.descriptor.package }

\* The dependencies collect_field_dependencies computes for a message job
\* that name the file stem of a target.
DependenciesOn(job, target) ==
    LET deps == collect_field_dependencies(job.entry.type.fields, job.pkg,
                                           job.entry.type.descriptor.path)
    IN  { deps[i] : i \in { k \in DOMAIN deps : deps[k].file_stem = target.entry.file_stem } }

\* C30: once a run has returned its files, every preload path computed for a
\* field that refers to a declared message or enum names, from the directory
\* of the referring file, the path of the file returned for that type.
C30_PreloadPathNamesEmittedFile ==
    (pkg_pc = "done") =>
        \A job \in { j \in TypeJobs : j.entry.kind = "Message" } :
            \A target \in DeclaredTargets(job) :
                \A dep \in DependenciesOn(job, target) :
                    /\ ResolveFrom(pkg_to_path(job.pkg), dep.path)
                         = type_file_path(target.pkg, target.entry)
                    /\ \E f \in generated.files :
                           f.path = ResolveFrom(pkg_to_path(job.pkg), dep.path)

\* The namespace file returned for a package path, or none.
NamespaceFile(p) == { f \in generated.files : f.path = p \o <<"mod.gd">> }

\* The non-empty prefixes of the package names of the schema.
Prefixes ==
    UNION { { SubSeq(schema[k].name, 1, i) : i \in 1..Len(schema[k].name) }
            : k \in DOMAIN schema }

\* The elements that extend a package path to a prefix one longer.
DirectChildren(p) == { q[Len(q)] : q \in { r \in Prefixes : Len(r) = Len(p) + 1
                                                         /\ SubSeq(r, 1, Len(p)) = p } }

\* The subpackages a returned namespace file preloads.
Preloaded(f) == { f.content.dependencies[i][2] : i \in DOMAIN f.content.dependencies }

\* C21: a run that returns its files returns one mod.gd per non-empty prefix
\* of a package name and no other package mod.gd, each preloading exactly the
\* direct child subpackages once, and the root mod.gd exactly when the schema
\* has a package; for the empty schema it returns no file.
C21_NamespacePerPrefixAndRoot ==
    (pkg_pc = "done") =>
        /\ \A p \in Prefixes :
               \E f \in generated.files :
                   /\ NamespaceFile(p) = {f}
                   /\ f.content.kind = "namespace"
                   /\ Preloaded(f) = DirectChildren(p)
                   /\ Len(f.content.dependencies) = Cardinality(DirectChildren(p))
        /\ \A f \in generated.files :
               (f.content.kind = "namespace" /\ f.path # <<"mod.gd">>)
                   => SubSeq(f.path, 1, Len(f.path) - 1) \in Prefixes
        /\ (\E f \in generated.files : f.path = <<"mod.gd">>) <=> (schema # <<>>)
        /\ (schema = <<>>) => (generated.files = {})

\* A run has returned the files of a schema in which an intermediate package
\* path declares no package, one package has no types and one path has a
\* child and a grandchild.
C21_Witness ==
    /\ pkg_pc = "done"
    /\ generated.ok
    /\ \E p \in Prefixes : \A k \in DOMAIN schema : schema[k].name # p
    /\ \E k \in DOMAIN schema : type_jobs(<<schema[k]>>) = <<>>
    /\ \E k \in DOMAIN schema : type_jobs(<<schema[k]>>) # <<>>
    /\ \E p, q \in Prefixes : Len(q) = Len(p) + 2 /\ SubSeq(q, 1, Len(p)) = p

\* The generator of a type job fails: a field or variant has no codec, or the
\* writer of the file fails.
TypeJobFails(job) ==
    LET path == type_file_path(job.pkg, job.entry)
    IN  IF job.entry.kind = "Message"
        THEN ~generate_message(job.entry.type, job.entry, job.pkg, path \in sink_fails).ok
        ELSE ~generate_enum(job.entry.type, job.entry, job.pkg, path \in sink_fails).ok

\* Generating some message, enum or namespace file of the schema fails.
SomeFileFails ==
    \/ \E job \in TypeJobs : TypeJobFails(job)
    \/ \E p \in Prefixes : (p \o <<"mod.gd">>) \in sink_fails
    \/ schema # <<>> /\ <<"mod.gd">> \in sink_fails

\* C22: a run in which generating some file fails never returns files; where
\* it stops it returns an error that carries no file, whatever was added to
\* the output before.
C22_FailureReturnsNoOutput ==
    /\ (pkg_pc = "done") => ~SomeFileFails
    /\ (pkg_pc = "failed") =>
           /\ SomeFileFails
           /\ ~generated.ok
           /\ DOMAIN generated = {"ok", "error"}

\* A run has stopped at a failing namespace file after type files were added
\* to the output.
C22_Witness ==
    /\ pkg_pc = "failed"
    /\ all_package_paths # {}
    /\ \E f \in output : f.content.kind \in {"message", "enum"}
    /\ ~generated.ok

====
